---- MODULE Spec2Model ----
(***************************************************************************)
(* jiraflow: the branch-name engine (sanitizer, generator, ref-name        *)
(* validation), the non-interactive command path and the TUI wizard.       *)
(*                                                                         *)
(* A Go string is modelled as a sequence of one-character strings, so      *)
(* "A-1" is <<"A", "-", "1">>.  All strings of the model are ASCII after   *)
(* the points where the code takes len(), so byte length = Len.            *)
(***************************************************************************)
EXTENDS Integers, Sequences, FiniteSets, TLC

(***************************************************************************)
(* Bounds of the model.                                                    *)
(***************************************************************************)
FnMaxTitleLen == 3

(***************************************************************************)
(* Characters.                                                             *)
(***************************************************************************)
LowerLetters == <<"a","b","c","d","e","f","g","h","i","j","k","l","m",
                  "n","o","p","q","r","s","t","u","v","w","x","y","z">>
UpperLetters == <<"A","B","C","D","E","F","G","H","I","J","K","L","M",
                  "N","O","P","Q","R","S","T","U","V","W","X","Y","Z">>
DigitChars == {"0","1","2","3","4","5","6","7","8","9"}
LowerSet == {LowerLetters[i] : i \in 1..26}
UpperSet == {UpperLetters[i] : i \in 1..26}
AlnumChars == LowerSet \cup UpperSet \cup DigitChars
\* \s of Go's regexp: [\t\n\f\r ]
SpaceChars == {" ", "\t", "\n", "\f", "\r"}
\* the characters the model uses for ASCII control characters [\x00-\x1f\x7f]
ControlChars == {"\t", "\n", "\f", "\r"}

\* strings.ToLower on one ASCII character
ToLowerChar(c) ==
  IF c \in UpperSet
    THEN LowerLetters[CHOOSE i \in 1..26 : UpperLetters[i] = c]
    ELSE c

(***************************************************************************)
(* String helpers (package strings).                                       *)
(***************************************************************************)
RECURSIVE Flatten(_)
Flatten(ss) == IF ss = <<>> THEN <<>> ELSE Head(ss) \o Flatten(Tail(ss))

MapChars(s, F(_)) == [i \in 1..Len(s) |-> F(s[i])]

\* keep the characters of s that are in the set keep
FilterChars(s, keep) == SelectSeq(s, LAMBDA c : c \in keep)

ToLower(s) == MapChars(s, ToLowerChar)

Prefix(s, n) == SubSeq(s, 1, n)

\* number of leading characters of s that are in cut
RECURSIVE LeadCount(_, _)
LeadCount(s, cut) ==
  IF s = <<>> \/ Head(s) \notin cut THEN 0 ELSE 1 + LeadCount(Tail(s), cut)

RECURSIVE TrailCount(_, _)
TrailCount(s, cut) ==
  IF s = <<>> \/ s[Len(s)] \notin cut THEN 0
  ELSE 1 + TrailCount(SubSeq(s, 1, Len(s) - 1), cut)

\* strings.TrimLeft(s, cutset)
TrimLeft(s, cut) == SubSeq(s, LeadCount(s, cut) + 1, Len(s))
\* strings.TrimRight(s, cutset)
TrimRight(s, cut) == SubSeq(s, 1, Len(s) - TrailCount(s, cut))
\* strings.Trim(s, cutset)
Trim(s, cut) == TrimRight(TrimLeft(s, cut), cut)
\* strings.TrimSpace(s)
TrimSpace(s) == Trim(s, SpaceChars)
\* strings.TrimSuffix(s, suffix) for a one-character suffix
TrimSuffix(s, c) ==
  IF s # <<>> /\ s[Len(s)] = c THEN SubSeq(s, 1, Len(s) - 1) ELSE s

\* strings.LastIndex(s, c) for a one-character c, 0-based, -1 when absent
LastIndex(s, c) ==
  IF \E i \in 1..Len(s) : s[i] = c
    THEN (CHOOSE i \in 1..Len(s) : s[i] = c /\ \A j \in (i+1)..Len(s) : s[j] # c) - 1
    ELSE -1

\* strings.Contains(s, sub)
Contains(s, sub) ==
  \E i \in 1..(Len(s) - Len(sub) + 1) : SubSeq(s, i, i + Len(sub) - 1) = sub

\* strings.ReplaceAll(s, old, new) for a one-character old
ReplaceChar(s, old, new) == Flatten([i \in 1..Len(s) |-> IF s[i] = old THEN new ELSE <<s[i]>>])

(***************************************************************************)
(* internal/branch: the sanitizer.                                         *)
(***************************************************************************)
\* the replacement table of removeUmlauts; every other character maps to itself
UmlautTable(c) ==
  CASE c \in {"ä", "æ"} -> <<"a", "e">>
    [] c \in {"Ä", "Æ"} -> <<"A", "e">>
    [] c \in {"ö"} -> <<"o", "e">>
    [] c \in {"Ö"} -> <<"O", "e">>
    [] c \in {"ü"} -> <<"u", "e">>
    [] c \in {"Ü"} -> <<"U", "e">>
    [] c \in {"ß"} -> <<"s", "s">>
    [] c \in {"à", "á", "â", "ã", "å"} -> <<"a">>
    [] c \in {"À", "Á", "Â", "Ã", "Å"} -> <<"A">>
    [] c \in {"è", "é", "ê", "ë"} -> <<"e">>
    [] c \in {"È", "É", "Ê", "Ë"} -> <<"E">>
    [] c \in {"ì", "í", "î", "ï"} -> <<"i">>
    [] c \in {"Ì", "Í", "Î", "Ï"} -> <<"I">>
    [] c \in {"ò", "ó", "ô", "õ", "ø"} -> <<"o">>
    [] c \in {"Ò", "Ó", "Ô", "Õ", "Ø"} -> <<"O">>
    [] c \in {"ù", "ú", "û"} -> <<"u">>
    [] c \in {"Ù", "Ú", "Û"} -> <<"U">>
    [] c \in {"ç"} -> <<"c">>
    [] c \in {"Ç"} -> <<"C">>
    [] c \in {"ñ"} -> <<"n">>
    [] c \in {"Ñ"} -> <<"N">>
    [] OTHER -> <<c>>

removeUmlauts(s) == Flatten([i \in 1..Len(s) |-> UmlautTable(s[i])])

\* the character class of the regexp of step 2, deleted outright (the class
\* also holds the backquote, which no alphabet of the model contains)
StripChars == {"\"", "(", ")", "[", "]", "{", "}", ":", ";", ",", "<", ">",
               "?", "|", "*", "&", "^", "%", "$", "#", "@", "!", "~"}

\* regexp \s*h\s* replaced by sep (leftmost, greedy), h one character
RECURSIVE ReplaceAround(_, _, _)
ReplaceAround(s, h, sep) ==
  IF s = <<>> THEN <<>>
  ELSE LET n == LeadCount(s, SpaceChars) IN
       IF n < Len(s) /\ s[n + 1] = h
         THEN <<sep>> \o ReplaceAround(TrimLeft(SubSeq(s, n + 2, Len(s)), SpaceChars), h, sep)
         ELSE <<Head(s)>> \o ReplaceAround(Tail(s), h, sep)

\* regexp \s+ replaced by sep
RECURSIVE CollapseSpaces(_, _)
CollapseSpaces(s, sep) ==
  IF s = <<>> THEN <<>>
  ELSE LET n == LeadCount(s, SpaceChars) IN
       IF n > 0 THEN <<sep>> \o CollapseSpaces(SubSeq(s, n + 1, Len(s)), sep)
       ELSE <<Head(s)>> \o CollapseSpaces(Tail(s), sep)

\* regexp QuoteMeta(sep){2,} replaced by sep
RECURSIVE CollapseSeps(_, _)
CollapseSeps(s, sep) ==
  IF s = <<>> THEN <<>>
  ELSE LET n == LeadCount(s, {sep}) IN
       IF n >= 2 THEN <<sep>> \o CollapseSeps(SubSeq(s, n + 1, Len(s)), sep)
       ELSE <<Head(s)>> \o CollapseSeps(Tail(s), sep)

\* step 8: cut to MaxLength, then back to the last separator past the midpoint
TruncateAtWord(s, maxLength, sep) ==
  IF maxLength > 0 /\ Len(s) > maxLength
    THEN LET cut == Prefix(s, maxLength)
             lastSep == LastIndex(cut, sep)
         IN IF lastSep > maxLength \div 2 THEN Prefix(cut, lastSep) ELSE cut
    ELSE s

\* the separator Sanitize works with: options.Separator, "-" when it is empty
EffectiveSeparator(o) == IF o.Separator = <<>> THEN "-" ELSE o.Separator[1]

\* BranchSanitizer.Sanitize(input, options)
Sanitize(input, o) ==
  IF input = <<>> THEN <<>>
  ELSE LET sep == EffectiveSeparator(o)
           s0 == TrimSpace(input)
           s1 == IF o.RemoveUmlauts THEN removeUmlauts(s0) ELSE s0
           s2 == ReplaceChar(ReplaceChar(s1, "/", <<" ">>), "\\", <<" ">>)
           s3 == FilterChars(s2, {s2[i] : i \in 1..Len(s2)} \ StripChars)
           s4 == ReplaceAround(ReplaceAround(s3, "-", sep), "_", sep)
           s5 == CollapseSpaces(s4, sep)
           s6 == CollapseSeps(s5, sep)
           s7 == FilterChars(s6, AlnumChars \cup {sep, "."})
           s8 == IF o.Lowercase THEN ToLower(s7) ELSE s7
           s9 == TruncateAtWord(s8, o.MaxLength, sep)
           s10 == Trim(s9, {sep})
       IN TrimLeft(s10, {"."})

(***************************************************************************)
(* internal/branch: the generator.                                         *)
(***************************************************************************)
MinTitleLength == 10

\* a generator that joins the parts and never shortens the title
C17_GenerateUntruncated(type, ticketID, title0, config) ==
  IF type = <<>> \/ ticketID = <<>> THEN <<>>
  ELSE type \o <<"/">> \o ticketID \o config.Separator
         \o Sanitize(IF title0 = <<>> THEN ticketID ELSE title0,
                     [Separator |-> config.Separator, Lowercase |-> config.Lowercase,
                      RemoveUmlauts |-> config.RemoveUmlauts, MaxLength |-> 0])

\* a generator that sanitizes the whole name, type and ticket id included
C18_GenerateSanitizesAll(type, ticketID, title0, config) ==
  IF type = <<>> \/ ticketID = <<>> THEN <<>>
  ELSE type \o <<"/">>
         \o Sanitize(ticketID \o config.Separator \o (IF title0 = <<>> THEN ticketID ELSE title0),
                     [Separator |-> config.Separator, Lowercase |-> config.Lowercase,
                      RemoveUmlauts |-> config.RemoveUmlauts,
                      MaxLength |-> config.MaxBranchLength])

\* a generator that leaves the title part empty when no title is given
C19_GenerateNoSubstitute(type, ticketID, title0, config) ==
  IF type = <<>> \/ ticketID = <<>> THEN <<>>
  ELSE type \o <<"/">> \o ticketID \o config.Separator
         \o Sanitize(title0,
                     [Separator |-> config.Separator, Lowercase |-> config.Lowercase,
                      RemoveUmlauts |-> config.RemoveUmlauts,
                      MaxLength |-> config.MaxBranchLength])

\* BranchGenerator.GenerateNameWithConfig(info, config)
GenerateNameWithConfig(type, ticketID, title0, config) ==
  IF type = <<>> \/ ticketID = <<>> THEN <<>>
  ELSE LET title == IF title0 = <<>> THEN ticketID ELSE title0
           prefixLength == Len(type) + 1 + Len(ticketID) + Len(config.Separator)
           budget == config.MaxBranchLength - prefixLength
           availableTitleLength == IF budget < 1 THEN MinTitleLength ELSE budget
           sanitizedTitle == Sanitize(title, [Separator |-> config.Separator,
                                              Lowercase |-> config.Lowercase,
                                              RemoveUmlauts |-> config.RemoveUmlauts,
                                              MaxLength |-> availableTitleLength])
           branchName == type \o <<"/">> \o ticketID \o config.Separator \o sanitizedTitle
           maxTitleLength == config.MaxBranchLength - prefixLength
       IN IF Len(branchName) > config.MaxBranchLength /\ maxTitleLength > 0
            THEN LET truncatedTitle ==
                       IF Len(sanitizedTitle) > maxTitleLength
                         THEN IF config.Separator = <<>>
                                THEN Prefix(sanitizedTitle, maxTitleLength)
                                ELSE TrimSuffix(Prefix(sanitizedTitle, maxTitleLength),
                                                config.Separator[1])
                         ELSE sanitizedTitle
                 IN type \o <<"/">> \o ticketID \o config.Separator \o truncatedTitle
            ELSE branchName

\* BranchGenerator.ValidateName(name): TRUE when it returns nil
ValidateName(name) ==
  /\ name # <<>>
  /\ name[1] # "."
  /\ name[Len(name)] # "."
  /\ ~Contains(name, <<".", ".">>)
  /\ name[1] # "/"
  /\ name[Len(name)] # "/"
  /\ ~Contains(name, <<"/", "/">>)
  /\ \A i \in 1..Len(name) : name[i] \notin SpaceChars
  /\ \A i \in 1..Len(name) : name[i] \notin ControlChars
  /\ \A i \in 1..Len(name) : name[i] \notin {"~", "^", ":", "?", "*", "["}

(***************************************************************************)
(* internal/tui: the wizard's own name generation.                         *)
(***************************************************************************)
\* AppModel.sanitizeTitle(title)
sanitizeTitle(title) ==
  IF title = <<>> THEN <<>>
  ELSE LET lowered == ToLower(title)
           dashed == ReplaceChar(lowered, " ", <<"-">>)
           kept == FilterChars(dashed, LowerSet \cup DigitChars \cup {"-"})
           \* the loop replacing "--" by "-" until none is left
           single == SelectSeq([i \in 1..Len(kept) |->
                                  IF kept[i] = "-" /\ i > 1 /\ kept[i - 1] = "-"
                                    THEN "" ELSE kept[i]],
                               LAMBDA c : c # "")
       IN Trim(single, {"-"})

\* AppModel.generateBranchName() on the selections and config.MaxBranchLength
generateBranchName(selectedType, ticketNumber, ticketTitle, maxLength) ==
  LET sanitizedTitle == sanitizeTitle(ticketTitle)
      prefix == selectedType \o <<"/">> \o ticketNumber
      branchName == IF sanitizedTitle # <<>>
                      THEN prefix \o <<"-">> \o sanitizedTitle
                      ELSE prefix
      remainingLength == maxLength - Len(prefix) - 1
  IN IF Len(branchName) > maxLength
       THEN IF Len(prefix) < maxLength /\ remainingLength > 0 /\ sanitizedTitle # <<>>
              THEN prefix \o <<"-">> \o
                   (IF Len(sanitizedTitle) > remainingLength
                      THEN Prefix(sanitizedTitle, remainingLength)
                      ELSE sanitizedTitle)
              ELSE prefix
       ELSE branchName

(***************************************************************************)
(* The state of one run.                                                   *)
(***************************************************************************)
VARIABLES
  config,            \* the effective configuration, read once before the run
  user,              \* what the user of this run types: keys and intended texts
  gitBranches,       \* the names GetBranchesWithInfo returned at start
  state,             \* AppModel.state
  quit,              \* TRUE once Update returned tea.Quit: the program has ended
  width, height,     \* AppModel.width, AppModel.height
  typeModel,         \* models.TypeSelectorModel
  branchModel,       \* models.BranchSelectorModel
  inputModel,        \* models.InputFormModel
  confirmationModel, \* models.ConfirmationModel
  completionModel,   \* models.CompletionModel
  selectedType, selectedBranch, ticketNumber, ticketTitle, finalBranch,
  createCount,       \* number of CreateBranch calls made so far
  lastCreate,        \* the last CreateBranch call: its arguments and result
  pending,           \* title fetches dispatched and not yet delivered
  cli,               \* the non-interactive path: flags, position, result
  fn                 \* a pure function applied to inputs: inputs and results

vars == <<config, user, gitBranches, state, quit, width, height, typeModel, branchModel,
          inputModel, confirmationModel, completionModel, selectedType,
          selectedBranch, ticketNumber, ticketTitle, finalBranch, createCount,
          lastCreate, pending, cli, fn>>

envVars == <<config, user, gitBranches>>

wizardVars == <<state, quit, width, height, typeModel, branchModel, inputModel,
                confirmationModel, completionModel, selectedType, selectedBranch,
                ticketNumber, ticketTitle, finalBranch>>

NoCall == [name |-> <<>>, baseBranch |-> <<>>, ok |-> TRUE, made |-> FALSE]

(***************************************************************************)
(* Input domains.                                                          *)
(***************************************************************************)
MaxCreateCalls == 2

PrefixesOf(texts) == {<<>>} \cup UNION {{SubSeq(t, 1, n) : n \in 0..Len(t)} : t \in texts}

SpecialKeys == {"enter", "esc", "up", "down", "tab", "shift+tab", "backspace",
                "ctrl+u", "ctrl+c", "ctrl+enter"}
RuneKeys == {"q", "j", "k", "/", "A", "-", "1", "2", "a", ".", " ", "m", "i", "n", "d"}
Keys == SpecialKeys \cup RuneKeys

\* The user of a wizard run: the keys pressed, and what the user means to type
\* into the ticket field, the title field and the branch search.  A field holds
\* a prefix of one of these texts while it is edited.  jiraInstalled says
\* whether the jira command is installed on the user's machine, the condition
\* of CLIClient.IsAvailable; NewAppModel builds no client that would ask.
WizardUser ==
  [keys |-> {"enter", "esc", "q", "up", "down", "tab", "shift+tab", "backspace",
             "A", "-", "1", "a"},
   ticketTexts |-> {<<"A", "-", "1">>},
   titleTexts |-> {<<"a">>},
   queryTexts |-> {},
   jiraInstalled |-> TRUE]

BranchTypeKeys == {<<"f", "i", "x">>, <<"f", "e", "a", "t">>}
LocalBranches == <<<<"m", "a", "i", "n">>>>
WindowSizes == {<<80, 24>>}
GitErrorMessage == <<"g", "i", "t", " ", "e", "r", "r", "o", "r">>

(***************************************************************************)
(* internal/tui/models: the type selector.                                 *)
(***************************************************************************)
\* a type selector that starts with the first item of the list highlighted
C30_CursorOnFirstItem(cfg, order) ==
  [items |-> order, cursor |-> 1, selected |-> <<>>, width |-> 0, height |-> 0]

\* NewTypeSelectorModel(cfg): the list holds the types in map order, the
\* cursor is on the default type
NewTypeSelectorModel(cfg, order) ==
  [items |-> order,
   cursor |-> IF \E i \in 1..Len(order) : order[i] = cfg.DefaultBranchType
                THEN CHOOSE i \in 1..Len(order) : order[i] = cfg.DefaultBranchType
                ELSE 1,
   selected |-> <<>>, width |-> 0, height |-> 0]

\* list.Model.Update on a key: cursor up and down, within the list
ListMove(cursor, n, key) ==
  CASE key \in {"up", "k"} -> IF cursor > 1 THEN cursor - 1 ELSE cursor
    [] key \in {"down", "j"} -> IF cursor < n THEN cursor + 1 ELSE cursor
    [] OTHER -> cursor

\* TypeSelectorModel.Update(tea.KeyMsg)
TypeSelectorUpdate(m, key) ==
  CASE key = "enter" ->
         IF m.cursor \in 1..Len(m.items)
           THEN [m EXCEPT !.selected = m.items[m.cursor]] ELSE m
    [] key = "esc" -> m
    [] OTHER -> [m EXCEPT !.cursor = ListMove(m.cursor, Len(m.items), key)]

\* a type selector that always reports a selection
C5_AlwaysHasSelection(m) == TRUE

\* TypeSelectorModel.HasSelection()
TypeSelectorHasSelection(m) == m.selected # <<>>

(***************************************************************************)
(* internal/git: branch filtering.                                         *)
(***************************************************************************)
\* fuzzyMatch(branchName, searchTerm): searchTerm is a subsequence
RECURSIVE fuzzyMatch(_, _)
fuzzyMatch(branchName, searchTerm) ==
  IF searchTerm = <<>> THEN TRUE
  ELSE IF branchName = <<>> THEN FALSE
  ELSE IF Head(branchName) = Head(searchTerm)
         THEN fuzzyMatch(Tail(branchName), Tail(searchTerm))
         ELSE fuzzyMatch(Tail(branchName), searchTerm)

\* a filter that keeps every match in the order of the list
C20_FilterInListOrder(branches, searchTerm) ==
  IF searchTerm = <<>> THEN branches
  ELSE SelectSeq(branches, LAMBDA b : fuzzyMatch(ToLower(b), ToLower(searchTerm)))

\* a filter that lists a substring match in the fuzzy group as well
C21_FilterBothGroups(branches, searchTerm) ==
  IF searchTerm = <<>> THEN branches
  ELSE SelectSeq(branches, LAMBDA b : Contains(ToLower(b), ToLower(searchTerm)))
         \o SelectSeq(branches, LAMBDA b : fuzzyMatch(ToLower(b), ToLower(searchTerm)))

\* a filter that treats the empty term like any other and lists nothing for it
C23_FilterEmptyTermNothing(branches, searchTerm) ==
  IF searchTerm = <<>> THEN <<>>
  ELSE SelectSeq(branches, LAMBDA b : Contains(ToLower(b), ToLower(searchTerm)))
         \o SelectSeq(branches, LAMBDA b : ~Contains(ToLower(b), ToLower(searchTerm))
                                            /\ fuzzyMatch(ToLower(b), ToLower(searchTerm)))

\* FilterBranchesRealtime(branches, searchTerm).Branches
FilterBranchesRealtime(branches, searchTerm) ==
  IF searchTerm = <<>> THEN branches
  ELSE LET term == ToLower(searchTerm)
           exactMatches == SelectSeq(branches, LAMBDA b : Contains(ToLower(b), term))
           fuzzyMatches == SelectSeq(branches, LAMBDA b :
                             ~Contains(ToLower(b), term) /\ fuzzyMatch(ToLower(b), term))
       IN exactMatches \o fuzzyMatches

\* FilterBranchesRealtime(branches, searchTerm).HasResults: set to true when
\* the result is built, and recomputed from the matches only on the path of a
\* non-empty term
FilterHasResults(branches, searchTerm) ==
  IF searchTerm = <<>> THEN TRUE
  ELSE Len(FilterBranchesRealtime(branches, searchTerm)) > 0

(***************************************************************************)
(* internal/tui/models: the branch selector.                               *)
(***************************************************************************)
NewBranchSelectorModel(branches) ==
  [allBranches |-> branches, filteredItems |-> branches, cursor |-> 1,
   searching |-> FALSE, query |-> <<>>, selected |-> <<>>, width |-> 0, height |-> 0]

\* BranchSelectorModel.updateFilter(term)
updateFilter(m, term) ==
  [m EXCEPT !.query = term,
            !.filteredItems = FilterBranchesRealtime(m.allBranches, term),
            !.cursor = 1]

\* BranchSelectorModel.Update(tea.KeyMsg)
BranchSelectorUpdate(m, key) ==
  IF m.searching
    THEN CASE key \in {"enter", "esc"} -> [m EXCEPT !.searching = FALSE]
           [] key = "ctrl+u" -> updateFilter(m, <<>>)
           [] key = "backspace" ->
                IF m.query = <<>> THEN m
                ELSE updateFilter(m, SubSeq(m.query, 1, Len(m.query) - 1))
           [] key \in RuneKeys -> updateFilter(m, Append(m.query, key))
           [] OTHER -> m
    ELSE CASE key = "/" -> [m EXCEPT !.searching = TRUE]
           [] key = "enter" ->
                IF m.cursor \in 1..Len(m.filteredItems)
                  THEN [m EXCEPT !.selected = m.filteredItems[m.cursor]] ELSE m
           [] key = "esc" -> m
           [] OTHER -> [m EXCEPT !.cursor = ListMove(m.cursor, Len(m.filteredItems), key)]

BranchSelectorHasSelection(m) == m.selected # <<>>

(***************************************************************************)
(* internal/tui/models: the ticket form.                                   *)
(***************************************************************************)
MaxPending == 2

\* NewInputFormModel(jiraClient); jira is "nil", "available" or "unavailable"
NewInputFormModel(jira) ==
  [ticketInput |-> <<>>, titleInput |-> <<>>, currentField |-> "ticket",
   ticketNumber |-> <<>>, ticketTitle |-> <<>>, jira |-> jira,
   ticketValid |-> FALSE, ticketError |-> "",
   titleFetching |-> FALSE, titleFetched |-> FALSE, titleError |-> "",
   completed |-> FALSE, width |-> 0, height |-> 0]

\* textinput.Model.Update(tea.KeyMsg) on the value: a rune is appended,
\* backspace deletes the last character, ctrl+u deletes the whole line
TextInputUpdate(value, key) ==
  CASE key \in RuneKeys -> Append(value, key)
    [] key = "backspace" -> IF value = <<>> THEN value ELSE SubSeq(value, 1, Len(value) - 1)
    [] key = "ctrl+u" -> <<>>
    [] OTHER -> value

\* a ticket pattern that also accepts a lowercase first letter
C16_RegexAnyCase(v) ==
  \E h \in 2..(Len(v) - 1) :
    /\ v[h] = "-"
    /\ v[1] \in UpperSet \cup LowerSet
    /\ \A i \in 2..(h - 1) : v[i] \in UpperSet \cup DigitChars
    /\ \A i \in (h + 1)..Len(v) : v[i] \in DigitChars

\* the regexp ^[A-Z][A-Z0-9]*-\d+$
TicketRegexMatch(v) ==
  \E h \in 2..(Len(v) - 1) :
    /\ v[h] = "-"
    /\ v[1] \in UpperSet
    /\ \A i \in 2..(h - 1) : v[i] \in UpperSet \cup DigitChars
    /\ \A i \in (h + 1)..Len(v) : v[i] \in DigitChars

InvalidFormatMessage == "Invalid format. Use PROJECT-123 format (e.g., JIRA-123)"

\* InputFormModel.validateTicketNumber(value)
validateTicketNumber(m, value0) ==
  LET value == TrimSpace(value0) IN
  IF value = <<>> THEN [m EXCEPT !.ticketValid = FALSE, !.ticketError = ""]
  ELSE IF ~TicketRegexMatch(value)
         THEN [m EXCEPT !.ticketValid = FALSE, !.ticketError = InvalidFormatMessage]
         ELSE [m EXCEPT !.ticketValid = TRUE, !.ticketError = ""]

\* a form that is valid only once a title has been entered
C15_ValidNeedsTitle(m) ==
  m.ticketValid /\ TrimSpace(m.ticketInput) # <<>> /\ TrimSpace(m.titleInput) # <<>>

\* a form that is not valid while it shows the error of a title fetch
C29_ValidNeedsNoFetchError(m) ==
  m.ticketValid /\ TrimSpace(m.ticketInput) # <<>> /\ m.titleError = ""

\* InputFormModel.isFormValid()
isFormValid(m) == m.ticketValid /\ TrimSpace(m.ticketInput) # <<>>

\* a fetch condition that does not look at the title field
C12_FetchIgnoringTitle(m) == m.ticketValid /\ m.jira = "available"

\* the condition under which a changed ticket value dispatches a title fetch
AutoFetch(m) == m.ticketValid /\ m.titleInput = <<>> /\ m.jira = "available"

\* InputFormModel.Update(tea.KeyMsg): the form after the key
InputFormUpdate(m, key) ==
  CASE key = "esc" -> m
    [] key \in {"enter", "ctrl+enter"} ->
         IF isFormValid(m)
           THEN [m EXCEPT !.completed = TRUE,
                          !.ticketNumber = TrimSpace(m.ticketInput),
                          !.ticketTitle = TrimSpace(m.titleInput)]
           ELSE m
    [] key \in {"tab", "down", "j"} -> [m EXCEPT !.currentField = "title"]
    [] key \in {"shift+tab", "up", "k"} -> [m EXCEPT !.currentField = "ticket"]
    [] OTHER ->
         IF m.currentField = "ticket"
           THEN LET newValue == TextInputUpdate(m.ticketInput, key)
                    typed == [m EXCEPT !.ticketInput = newValue]
                IN IF newValue = m.ticketInput THEN typed
                   ELSE LET checked == validateTicketNumber(typed, newValue)
                        IN IF AutoFetch(checked)
                             THEN [checked EXCEPT !.titleFetching = TRUE,
                                                  !.titleFetched = FALSE,
                                                  !.titleError = ""]
                             ELSE checked
           ELSE [m EXCEPT !.titleInput = TextInputUpdate(m.titleInput, key)]

\* InputFormModel.Update(tea.KeyMsg): the fetches the returned command runs,
\* each tagged with the ticket id it was requested for (fetchTitleCmd)
InputFormFetches(m, key) ==
  IF /\ key \notin {"esc", "enter", "ctrl+enter", "tab", "down", "j", "shift+tab", "up", "k"}
     /\ m.currentField = "ticket"
     /\ TextInputUpdate(m.ticketInput, key) # m.ticketInput
     /\ AutoFetch(validateTicketNumber([m EXCEPT !.ticketInput = TextInputUpdate(m.ticketInput, key)],
                                       TextInputUpdate(m.ticketInput, key)))
    THEN <<TextInputUpdate(m.ticketInput, key)>>
    ELSE <<>>

\* InputFormModel.Update(FetchTitleMsg)
InputFormFetched(m, msg) ==
  IF msg.Error # ""
    THEN [m EXCEPT !.titleFetching = FALSE, !.titleError = msg.Error, !.titleFetched = FALSE]
    ELSE [m EXCEPT !.titleFetching = FALSE, !.titleInput = msg.Title,
                   !.titleFetched = TRUE, !.titleError = ""]

\* InputFormModel.Update(tea.WindowSizeMsg)
InputFormResize(m, w, h) == [m EXCEPT !.width = w, !.height = h]

(***************************************************************************)
(* internal/tui/models: confirmation and completion.                       *)
(***************************************************************************)
NewConfirmationModel ==
  [confirmed |-> FALSE, branchType |-> <<>>, baseBranch |-> <<>>, ticketNumber |-> <<>>,
   ticketTitle |-> <<>>, finalBranch |-> <<>>, width |-> 0, height |-> 0]

\* ConfirmationModel.Update(tea.KeyMsg)
ConfirmationUpdate(m, key) == IF key = "enter" THEN [m EXCEPT !.confirmed = TRUE] ELSE m

\* ConfirmationModel.SetData(...)
ConfirmationSetData(m, bt, bb, tn, tt, fb) ==
  [m EXCEPT !.branchType = bt, !.baseBranch = bb, !.ticketNumber = tn,
            !.ticketTitle = tt, !.finalBranch = fb]

NewCompletionModel ==
  [state |-> "CompletionSuccess", branchName |-> <<>>, baseBranch |-> <<>>,
   errorMessage |-> <<>>, shouldExit |-> FALSE, width |-> 0, height |-> 0]

\* CompletionModel.SetSuccess(branchName, baseBranch)
CompletionSetSuccess(m, name, base) ==
  [m EXCEPT !.state = "CompletionSuccess", !.branchName = name, !.baseBranch = base,
            !.errorMessage = <<>>]

\* CompletionModel.SetError(errorMessage)
CompletionSetError(m, msg) == [m EXCEPT !.state = "CompletionError", !.errorMessage = msg]

\* CompletionModel.View() in the error state: the error message, and the
\* line "Attempted:" with the branch name when the model holds one
CompletionErrorView(m) ==
  [message |-> m.errorMessage,
   attempted |-> IF m.branchName # <<>> THEN <<m.branchName>> ELSE <<>>]

\* CompletionModel.Update(tea.KeyMsg)
CompletionUpdate(m, key) ==
  IF key \in {"enter", "q", "ctrl+c"} THEN [m EXCEPT !.shouldExit = TRUE] ELSE m

(***************************************************************************)
(* internal/tui: the wizard (AppModel).                                    *)
(***************************************************************************)
\* the configurations a wizard run starts from (config.ValidateAndFix has run)
Configs ==
  [MaxBranchLength : {60},
   DefaultBranchType : {<<"f", "i", "x">>},
   Separator : {<<"-">>},
   Lowercase : {TRUE},
   RemoveUmlauts : {TRUE}]

\* the orders in which ranging over the map cfg.BranchTypes can yield its keys
TypeOrders == {o \in [1..Cardinality(BranchTypeKeys) -> BranchTypeKeys] :
                 \A i, j \in DOMAIN o : i # j => o[i] # o[j]}

\* the parts of the initial state the wizard does not own
IdleRest ==
  /\ createCount = 0
  /\ lastCreate = NoCall
  /\ pending = <<>>

IdleCli == cli = [pc |-> "off"]
IdleFn == fn = [pc |-> "off"]

\* NewAppModel(cfg, gitRepo): everything but the ticket form
WizardStart ==
  /\ state = "TypeSelection"
  /\ quit = FALSE
  /\ width = 0 /\ height = 0
  /\ \E order \in TypeOrders : typeModel = NewTypeSelectorModel(config, order)
  /\ branchModel = NewBranchSelectorModel(gitBranches)
  /\ confirmationModel = NewConfirmationModel
  /\ completionModel = NewCompletionModel
  /\ selectedType = <<>> /\ selectedBranch = <<>>
  /\ ticketNumber = <<>> /\ ticketTitle = <<>> /\ finalBranch = <<>>

\* NewAppModel(cfg, gitRepo): the ticket form is built without a Jira client
NewAppModel ==
  /\ WizardStart
  /\ inputModel = NewInputFormModel("nil")

Init ==
  /\ config \in Configs
  /\ user = WizardUser
  /\ gitBranches = LocalBranches
  /\ NewAppModel /\ IdleRest /\ IdleCli /\ IdleFn

\* the fields the user edits hold a prefix of a text the user means to type
InTextDomain(form, picker) ==
  /\ form.ticketInput \in PrefixesOf(user.ticketTexts)
  /\ form.titleInput \in PrefixesOf(user.titleTexts)
  /\ picker.query \in PrefixesOf(user.queryTexts)

\* a resize that passes the new size to the type selector only
C28_ResizeTypeSelectorOnly ==
  /\ ~quit
  /\ \E sz \in WindowSizes :
       /\ width' = sz[1] /\ height' = sz[2]
       /\ typeModel' = [typeModel EXCEPT !.width = sz[1], !.height = sz[2] - 6]
  /\ UNCHANGED <<envVars, state, quit, branchModel, inputModel, confirmationModel,
                 completionModel, selectedType, selectedBranch,
                 ticketNumber, ticketTitle, finalBranch, createCount, lastCreate,
                 pending, cli, fn>>

\* AppModel.Update(tea.WindowSizeMsg)
Resize ==
  /\ ~quit
  /\ \E sz \in WindowSizes :
       /\ width' = sz[1] /\ height' = sz[2]
       /\ typeModel' = [typeModel EXCEPT !.width = sz[1], !.height = sz[2] - 6]
       /\ branchModel' = [branchModel EXCEPT !.width = sz[1], !.height = sz[2] - 6]
       /\ inputModel' = [inputModel EXCEPT !.width = sz[1], !.height = sz[2] - 6]
       /\ confirmationModel' = [confirmationModel EXCEPT !.width = sz[1], !.height = sz[2] - 6]
       /\ completionModel' = [completionModel EXCEPT !.width = sz[1], !.height = sz[2] - 6]
  /\ UNCHANGED <<envVars, state, quit, selectedType, selectedBranch,
                 ticketNumber, ticketTitle, finalBranch, createCount, lastCreate,
                 pending, cli, fn>>

\* DefaultKeyMap(): the keys of the Quit binding
QuitKeys == {"q", "ctrl+c"}

\* AppModel.Update(tea.KeyMsg) for a key matching keys.Quit
KeyQuit ==
  /\ ~quit
  /\ \E key \in user.keys \cap QuitKeys : quit' = TRUE
  /\ UNCHANGED <<envVars, state, width, height, typeModel, branchModel,
                 inputModel, confirmationModel, completionModel, selectedType,
                 selectedBranch, ticketNumber, ticketTitle, finalBranch, createCount,
                 lastCreate, pending, cli, fn>>

\* a back table that sends Confirmation to the branch picker
C3_BackSkipsTicket(st) ==
  CASE st = "TypeSelection" -> "TypeSelection"
    [] st = "BranchSelection" -> "TypeSelection"
    [] st = "TicketInput" -> "BranchSelection"
    [] st = "TitleInput" -> "BranchSelection"
    [] st = "Confirmation" -> "BranchSelection"
    [] st = "Complete" -> "Confirmation"

\* AppModel.handleBack(): the state it leaves the wizard in
BackTarget(st) ==
  CASE st = "TypeSelection" -> "TypeSelection"
    [] st = "BranchSelection" -> "TypeSelection"
    [] st = "TicketInput" -> "BranchSelection"
    [] st = "TitleInput" -> "BranchSelection"
    [] st = "Confirmation" -> "TicketInput"
    [] st = "Complete" -> "Confirmation"

\* AppModel.handleBack(): TRUE when it returns tea.Quit
BackQuits(st) == st = "TypeSelection"

\* a back handler that clears the ticket form and the ticket selections
C7_BackResetsForm ==
  /\ ~quit
  /\ "esc" \in user.keys
  /\ state' = BackTarget(state)
  /\ quit' = BackQuits(state)
  /\ inputModel' = IF state = "Confirmation"
                     THEN [NewInputFormModel(inputModel.jira) EXCEPT
                             !.width = inputModel.width, !.height = inputModel.height]
                     ELSE inputModel
  /\ ticketNumber' = IF state = "Confirmation" THEN <<>> ELSE ticketNumber
  /\ ticketTitle' = IF state = "Confirmation" THEN <<>> ELSE ticketTitle
  /\ UNCHANGED <<envVars, width, height, typeModel, branchModel,
                 confirmationModel, completionModel, selectedType,
                 selectedBranch, finalBranch, createCount,
                 lastCreate, pending, cli, fn>>

\* a back handler that forgets the selection of the state it returns to
C27_BackClearsSelection ==
  /\ ~quit
  /\ "esc" \in user.keys
  /\ state' = BackTarget(state)
  /\ quit' = BackQuits(state)
  /\ selectedBranch' = IF state = "TicketInput" THEN <<>> ELSE selectedBranch
  /\ ticketNumber' = IF state = "Confirmation" THEN <<>> ELSE ticketNumber
  /\ ticketTitle' = IF state = "Confirmation" THEN <<>> ELSE ticketTitle
  /\ UNCHANGED <<envVars, width, height, typeModel, branchModel,
                 inputModel, confirmationModel, completionModel, selectedType,
                 finalBranch, createCount, lastCreate, pending, cli, fn>>

\* AppModel.Update(tea.KeyMsg) for a key matching keys.Back: handleBack()
KeyBack ==
  /\ ~quit
  /\ "esc" \in user.keys
  /\ state' = BackTarget(state)
  /\ quit' = BackQuits(state)
  /\ UNCHANGED <<envVars, width, height, typeModel, branchModel,
                 inputModel, confirmationModel, completionModel, selectedType,
                 selectedBranch, ticketNumber, ticketTitle, finalBranch, createCount,
                 lastCreate, pending, cli, fn>>

\* the keys Update passes on to the handler of the current state
StateKeys == user.keys \ (QuitKeys \cup {"esc"})

\* AppModel.updateTypeSelection(msg)
KeyTypeSelection ==
  /\ ~quit /\ state = "TypeSelection"
  /\ \E key \in StateKeys :
       /\ typeModel' = TypeSelectorUpdate(typeModel, key)
       /\ IF TypeSelectorHasSelection(typeModel')
            THEN selectedType' = typeModel'.selected /\ state' = "BranchSelection"
            ELSE UNCHANGED <<selectedType, state>>
  /\ UNCHANGED <<envVars, quit, width, height, branchModel, inputModel,
                 confirmationModel, completionModel, selectedBranch, ticketNumber,
                 ticketTitle, finalBranch, createCount, lastCreate, pending, cli, fn>>

\* a branch step that moves on with the first branch of the list, whatever
\* the selector reports as selected
C24_AdvanceWithFirstBranch ==
  /\ ~quit /\ state = "BranchSelection"
  /\ \E key \in StateKeys :
       /\ branchModel' = BranchSelectorUpdate(branchModel, key)
       /\ InTextDomain(inputModel, branchModel')
       /\ IF BranchSelectorHasSelection(branchModel')
            THEN selectedBranch' = gitBranches[1] /\ state' = "TicketInput"
            ELSE UNCHANGED <<selectedBranch, state>>
  /\ UNCHANGED <<envVars, quit, width, height, typeModel, inputModel,
                 confirmationModel, completionModel, selectedType, ticketNumber,
                 ticketTitle, finalBranch, createCount, lastCreate, pending, cli, fn>>

\* AppModel.updateBranchSelection(msg)
KeyBranchSelection ==
  /\ ~quit /\ state = "BranchSelection"
  /\ \E key \in StateKeys :
       /\ branchModel' = BranchSelectorUpdate(branchModel, key)
       /\ InTextDomain(inputModel, branchModel')
       /\ IF BranchSelectorHasSelection(branchModel')
            THEN selectedBranch' = branchModel'.selected /\ state' = "TicketInput"
            ELSE UNCHANGED <<selectedBranch, state>>
  /\ UNCHANGED <<envVars, quit, width, height, typeModel, inputModel,
                 confirmationModel, completionModel, selectedType, ticketNumber,
                 ticketTitle, finalBranch, createCount, lastCreate, pending, cli, fn>>

\* AppModel.updateTicketInput(msg)
KeyTicketInput ==
  /\ ~quit /\ state = "TicketInput"
  /\ \E key \in StateKeys :
       /\ inputModel' = InputFormUpdate(inputModel, key)
       /\ InTextDomain(inputModel', branchModel)
       /\ Len(pending) + Len(InputFormFetches(inputModel, key)) <= MaxPending
       /\ pending' = pending \o InputFormFetches(inputModel, key)
       /\ IF inputModel'.completed
            THEN /\ ticketNumber' = inputModel'.ticketNumber
                 /\ ticketTitle' = inputModel'.ticketTitle
                 /\ state' = "Confirmation"
            ELSE UNCHANGED <<ticketNumber, ticketTitle, state>>
  /\ UNCHANGED <<envVars, quit, width, height, typeModel, branchModel,
                 confirmationModel, completionModel, selectedType, selectedBranch,
                 finalBranch, createCount, lastCreate, cli, fn>>

\* LocalGitRepository.CreateBranch(name, baseBranch): an empty name or base is
\* an error, and git may refuse any other; the call is recorded with its
\* arguments and its outcome
CreateBranch(name, base, ok) ==
  /\ createCount < MaxCreateCalls
  /\ (name = <<>> \/ base = <<>>) => ~ok
  /\ createCount' = createCount + 1
  /\ lastCreate' = [name |-> name, baseBranch |-> base, ok |-> ok, made |-> TRUE]

\* AppModel.renderConfirmation(): the branch name the Confirmation screen shows
renderConfirmation ==
  generateBranchName(selectedType, ticketNumber, ticketTitle, config.MaxBranchLength)

\* a create call that passes the name stored before this confirmation
C8_CreateStoredName(ok) == CreateBranch(finalBranch, selectedBranch, ok)

\* AppModel.createBranch(): called after finalBranch has been assigned
createBranch(ok) == CreateBranch(finalBranch', selectedBranch, ok)

\* a completion screen that keeps the payload of the call before
C6_KeepCompletion(ok) == completionModel

\* AppModel.updateConfirmation(msg): the completion screen after the create call
CompletionAfterCreate(ok) ==
  IF ok THEN CompletionSetSuccess(completionModel, finalBranch', selectedBranch)
  ELSE CompletionSetError(completionModel, GitErrorMessage)

\* AppModel.updateConfirmation(msg)
KeyConfirmation ==
  /\ ~quit /\ state = "Confirmation"
  /\ \E key \in StateKeys :
       LET confirmation == ConfirmationUpdate(confirmationModel, key) IN
       IF confirmation.confirmed
         THEN \E ok \in BOOLEAN :
                /\ finalBranch' = generateBranchName(selectedType, ticketNumber, ticketTitle,
                                                     config.MaxBranchLength)
                /\ confirmationModel' = ConfirmationSetData(confirmation, selectedType,
                                          selectedBranch, ticketNumber, ticketTitle, finalBranch')
                /\ createBranch(ok)
                /\ completionModel' = CompletionAfterCreate(ok)
                /\ state' = "Complete"
         ELSE /\ confirmationModel' = confirmation
              /\ UNCHANGED <<finalBranch, createCount, lastCreate, completionModel, state>>
  /\ UNCHANGED <<envVars, quit, width, height, typeModel, branchModel,
                 inputModel, selectedType, selectedBranch, ticketNumber, ticketTitle,
                 pending, cli, fn>>

\* AppModel.updateComplete(msg)
KeyComplete ==
  /\ ~quit /\ state = "Complete"
  /\ \E key \in StateKeys :
       /\ completionModel' = CompletionUpdate(completionModel, key)
       /\ quit' = completionModel'.shouldExit
  /\ UNCHANGED <<envVars, state, width, height, typeModel, branchModel,
                 inputModel, confirmationModel, selectedType, selectedBranch,
                 ticketNumber, ticketTitle, finalBranch, createCount, lastCreate,
                 pending, cli, fn>>

Next ==
  \/ Resize
  \/ KeyQuit
  \/ KeyBack
  \/ KeyTypeSelection
  \/ KeyBranchSelection
  \/ KeyTicketInput
  \/ KeyConfirmation
  \/ KeyComplete

Spec == Init /\ [][Next]_vars

(***************************************************************************)
(* What a finished wizard run reports to the process.  An error is the     *)
(* chain of its messages, outermost first; the empty chain is nil.  Every  *)
(* error on this path is made by fmt.Errorf, none is a JiraFlowError.      *)
(***************************************************************************)
NilError == <<>>

\* RunTUI(cfg, gitRepo): the value returned once p.Run() has returned;
\* runFailed says that p.Run() returned an error
RunTUI(runFailed) ==
  IF runFailed THEN <<"TUI application error", "program error">>
  ELSE IF state # "Complete" THEN <<"user cancelled operation">>
  ELSE NilError

\* runInteractiveMode(cfg, gitRepo): wraps the error of RunTUI
runInteractiveMode(err) ==
  IF err # NilError THEN <<"TUI application failed">> \o err ELSE NilError

\* ErrorHandler.HandleError(err): the exit code, for an error that is no
\* JiraFlowError
HandleError(err) == IF err = NilError THEN 0 ELSE 1

(***************************************************************************)
(* The ticket form on its own, with a Jira client, as its tests drive it:  *)
(* key messages, window sizes, and the results of the title fetches its    *)
(* commands run, delivered in any order.                                   *)
(***************************************************************************)
FormUser ==
  [keys |-> {"enter", "esc", "tab", "shift+tab", "backspace", "A", "-", "1", "2", "a"},
   ticketTexts |-> {<<"A", "-", "1", "2">>, <<"a", "-", "1">>},
   titleTexts |-> {<<"a">>, <<"b">>},
   queryTexts |-> {}]

\* what the Jira CLI answers
JiraTitles == {<<"b">>}
JiraErrors == {"issue not found"}

\* fetchTitleCmd(ticketID): the messages the command can produce
FetchResults(ticketID) ==
  {[TicketID |-> ticketID, Title |-> t, Error |-> ""] : t \in JiraTitles}
    \cup {[TicketID |-> ticketID, Title |-> <<>>, Error |-> e] : e \in JiraErrors}

RemoveAt(s, i) == SubSeq(s, 1, i - 1) \o SubSeq(s, i + 1, Len(s))

InitForm ==
  /\ config \in Configs
  /\ user = FormUser
  /\ gitBranches = LocalBranches
  /\ WizardStart
  /\ inputModel \in {NewInputFormModel(jira) : jira \in {"available", "unavailable"}}
  /\ IdleRest /\ IdleCli /\ IdleFn

\* InputFormModel.Update(tea.KeyMsg), and the command it returns
FormKey ==
  /\ \E key \in user.keys :
       /\ inputModel' = InputFormUpdate(inputModel, key)
       /\ InTextDomain(inputModel', branchModel)
       /\ Len(pending) + Len(InputFormFetches(inputModel, key)) <= MaxPending
       /\ pending' = pending \o InputFormFetches(inputModel, key)
  /\ UNCHANGED <<envVars, state, quit, width, height, typeModel, branchModel,
                 confirmationModel, completionModel, selectedType, selectedBranch,
                 ticketNumber, ticketTitle, finalBranch, createCount, lastCreate,
                 cli, fn>>

\* InputFormModel.Update(FetchTitleMsg) for the i-th fetch in flight
FormFetchedMsg(i, msg) ==
  /\ inputModel' = InputFormFetched(inputModel, msg)
  /\ pending' = RemoveAt(pending, i)
  /\ UNCHANGED <<envVars, state, quit, width, height, typeModel, branchModel,
                 confirmationModel, completionModel, selectedType, selectedBranch,
                 ticketNumber, ticketTitle, finalBranch, createCount, lastCreate,
                 cli, fn>>

\* a title fetch completes and its message is delivered to the form
FormFetched ==
  \E i \in 1..Len(pending) : \E msg \in FetchResults(pending[i]) : FormFetchedMsg(i, msg)

\* InputFormModel.Update(tea.WindowSizeMsg)
FormResize ==
  /\ \E sz \in WindowSizes : inputModel' = InputFormResize(inputModel, sz[1], sz[2])
  /\ UNCHANGED <<envVars, state, quit, width, height, typeModel, branchModel,
                 confirmationModel, completionModel, selectedType, selectedBranch,
                 ticketNumber, ticketTitle, finalBranch, createCount, lastCreate,
                 pending, cli, fn>>

NextForm ==
  \/ FormKey
  \/ FormFetched
  \/ FormResize

SpecForm == InitForm /\ [][NextForm]_vars

(***************************************************************************)
(* The wizard's event loop with title fetches in flight.  The ticket form  *)
(* is the one a Jira client was handed to, so that typing a ticket id      *)
(* returns a fetch command to the loop; the loop itself is AppModel.Update *)
(* as written, which has a case for window sizes and a case for keys and   *)
(* returns the model unchanged for every other message.                    *)
(***************************************************************************)

LoopUser ==
  [keys |-> {"enter", "esc", "q", "down", "backspace", "A", "-", "1"},
   ticketTexts |-> {<<"A", "-", "1">>},
   titleTexts |-> {},
   queryTexts |-> {},
   jiraInstalled |-> TRUE]

InitLoop ==
  /\ config \in Configs
  /\ user = LoopUser
  /\ gitBranches = LocalBranches
  /\ WizardStart
  /\ inputModel = NewInputFormModel("available")
  /\ IdleRest /\ IdleCli /\ IdleFn

\* AppModel.Update(msg) for the FetchTitleMsg the i-th fetch in flight returns:
\* no case of the type switch matches it, the model is returned as it was
LoopFetched ==
  /\ \E i \in 1..Len(pending) :
       \E msg \in FetchResults(pending[i]) : pending' = RemoveAt(pending, i)
  /\ UNCHANGED <<envVars, wizardVars, createCount, lastCreate, cli, fn>>

NextLoop ==
  \/ Next
  \/ LoopFetched

SpecLoop == InitLoop /\ [][NextLoop]_vars

(***************************************************************************)
(* cmd: the non-interactive path (runNonInteractiveMode).                  *)
(***************************************************************************)
\* the flags a non-interactive run is started with
CliTypes == BranchTypeKeys \cup {<<>>, <<"x">>}
CliTickets == {<<"A", "-", "1">>, <<"A", "1">>, <<>>}
CliTitles == {<<>>, <<"a">>, <<"a", ".">>, <<"a", " ", "b">>}
CliBases == {<<>>, <<"m", "a", "i", "n">>, <<"d", "e", "v">>}

InitCLI ==
  /\ config \in Configs
  /\ user = WizardUser
  /\ gitBranches = LocalBranches
  /\ NewAppModel /\ IdleRest /\ IdleFn
  /\ cli \in [pc : {"start"}, branchType : CliTypes, ticketNumber : CliTickets,
              ticketTitle : CliTitles, baseBranch : CliBases, dryRun : BOOLEAN,
              branchName : {<<>>}, err : {""}]

\* validateNonInteractiveFlags(cfg): TRUE when it returns nil
validateNonInteractiveFlags(branchType, ticket) ==
  /\ branchType # <<>>
  /\ branchType \in BranchTypeKeys
  /\ ticket # <<>>
  /\ ~(Len(ticket) < 3 \/ ~Contains(ticket, <<"-">>))

SeqToSet(s) == {s[i] : i \in 1..Len(s)}

\* runNonInteractiveMode: the flags are validated and the base branch settled
CliValidate ==
  /\ cli.pc = "start"
  /\ IF ~validateNonInteractiveFlags(cli.branchType, cli.ticketNumber)
       THEN cli' = [cli EXCEPT !.pc = "failed", !.err = "validation failed"]
       ELSE IF cli.baseBranch = <<>>
              THEN \E current \in SeqToSet(gitBranches) :
                     cli' = [cli EXCEPT !.pc = "validated", !.baseBranch = current]
              ELSE IF cli.baseBranch \in SeqToSet(gitBranches)
                     THEN cli' = [cli EXCEPT !.pc = "validated"]
                     ELSE cli' = [cli EXCEPT !.pc = "failed",
                                             !.err = "base branch does not exist locally"]
  /\ UNCHANGED <<envVars, wizardVars, createCount, lastCreate, pending, fn>>

\* runNonInteractiveMode: a missing title is asked of Jira; a failed fetch
\* leaves it empty
CliFetchTitle ==
  /\ cli.pc = "validated"
  /\ IF cli.ticketTitle = <<>>
       THEN \E title \in JiraTitles \cup {<<>>} :
              cli' = [cli EXCEPT !.pc = "titled", !.ticketTitle = title]
       ELSE cli' = [cli EXCEPT !.pc = "titled"]
  /\ UNCHANGED <<envVars, wizardVars, createCount, lastCreate, pending, fn>>

\* GeneratorConfigFromAppConfig(maxLength, separator, lowercase, removeUmlauts)
GeneratorConfigFromAppConfig(maxLength, separator, lowercase, umlauts) ==
  [MaxBranchLength |-> maxLength, Separator |-> separator,
   Lowercase |-> lowercase, RemoveUmlauts |-> umlauts]

\* runNonInteractiveMode: the branch name is generated
CliGenerate ==
  /\ cli.pc = "titled"
  /\ cli' = [cli EXCEPT !.pc = "generated",
                        !.branchName = GenerateNameWithConfig(cli.branchType,
                           cli.ticketNumber, cli.ticketTitle,
                           GeneratorConfigFromAppConfig(config.MaxBranchLength,
                             config.Separator, config.Lowercase, config.RemoveUmlauts))]
  /\ UNCHANGED <<envVars, wizardVars, createCount, lastCreate, pending, fn>>

\* runNonInteractiveMode: a dry run stops here; an existing branch is an
\* error; otherwise the branch is created
CliCreate ==
  /\ cli.pc = "generated"
  /\ IF cli.dryRun
       THEN cli' = [cli EXCEPT !.pc = "done"] /\ UNCHANGED <<createCount, lastCreate>>
       ELSE IF cli.branchName \in SeqToSet(gitBranches)
              THEN /\ cli' = [cli EXCEPT !.pc = "failed", !.err = "branch already exists"]
                   /\ UNCHANGED <<createCount, lastCreate>>
              ELSE \E ok \in BOOLEAN :
                     /\ CreateBranch(cli.branchName, cli.baseBranch, ok)
                     /\ cli' = IF ok THEN [cli EXCEPT !.pc = "done"]
                               ELSE [cli EXCEPT !.pc = "failed",
                                                !.err = "failed to create branch"]
  /\ UNCHANGED <<envVars, wizardVars, pending, fn>>

NextCLI ==
  \/ CliValidate
  \/ CliFetchTitle
  \/ CliGenerate
  \/ CliCreate

SpecCLI == InitCLI /\ [][NextCLI]_vars

(***************************************************************************)
(* The two name generators applied to the same inputs.                     *)
(***************************************************************************)
FnTitleChars == {"a", "B", ".", " "}
FnTitles == UNION {[1..n -> FnTitleChars] : n \in 0..FnMaxTitleLen}
FnTypes == BranchTypeKeys \cup {<<>>}
FnTickets == {<<"A", "-", "1">>, <<"A", "B", "-", "1", "2">>, <<>>}

FnConfigs ==
  [MaxBranchLength : {10, 60},
   DefaultBranchType : {<<"f", "i", "x">>},
   Separator : {<<"-">>, <<"_">>},
   Lowercase : {TRUE, FALSE},
   RemoveUmlauts : {TRUE}]

InitFn ==
  /\ config \in FnConfigs
  /\ user = WizardUser
  /\ gitBranches = LocalBranches
  /\ NewAppModel /\ IdleRest /\ IdleCli
  /\ fn \in [pc : {"on"}, Type : FnTypes, TicketID : FnTickets, Title : FnTitles,
             generated : {<<>>}, generatedDone : {FALSE},
             wizard : {<<>>}, wizardDone : {FALSE}]

\* the non-interactive path's generation: GenerateNameWithConfig on the inputs
\* and the configuration
FnGenerate ==
  /\ fn.pc = "on" /\ ~fn.generatedDone
  /\ fn' = [fn EXCEPT !.generatedDone = TRUE,
                      !.generated = GenerateNameWithConfig(fn.Type, fn.TicketID, fn.Title,
                         GeneratorConfigFromAppConfig(config.MaxBranchLength,
                           config.Separator, config.Lowercase, config.RemoveUmlauts))]
  /\ UNCHANGED <<envVars, wizardVars, createCount, lastCreate, pending, cli>>

\* the wizard's generation: generateBranchName on the same inputs
FnWizard ==
  /\ fn.pc = "on" /\ ~fn.wizardDone
  /\ fn' = [fn EXCEPT !.wizardDone = TRUE,
                      !.wizard = generateBranchName(fn.Type, fn.TicketID, fn.Title,
                                                    config.MaxBranchLength)]
  /\ UNCHANGED <<envVars, wizardVars, createCount, lastCreate, pending, cli>>

NextFn ==
  \/ FnGenerate
  \/ FnWizard

SpecFn == InitFn /\ [][NextFn]_vars

(***************************************************************************)
(* The sanitizer applied to an input, and again to its own result.         *)
(***************************************************************************)
SanMaxLen == 3
SanChars == {"a", "B", ".", "-", " "}
SanInputs == UNION {[1..n -> SanChars] : n \in 0..SanMaxLen}

SanOptions ==
  [Separator : {<<"-">>, <<"_">>}, Lowercase : {TRUE, FALSE},
   RemoveUmlauts : {TRUE}, MaxLength : {0, 2}]

InitSan ==
  /\ config \in Configs
  /\ user = WizardUser
  /\ gitBranches = LocalBranches
  /\ NewAppModel /\ IdleRest /\ IdleCli
  /\ fn \in [pc : {"san"}, input : SanInputs, options : SanOptions,
             once : {<<>>}, onceDone : {FALSE}, twice : {<<>>}, twiceDone : {FALSE}]

\* Sanitize(input, options)
SanOnce ==
  /\ fn.pc = "san" /\ ~fn.onceDone
  /\ fn' = [fn EXCEPT !.onceDone = TRUE, !.once = Sanitize(fn.input, fn.options)]
  /\ UNCHANGED <<envVars, wizardVars, createCount, lastCreate, pending, cli>>

\* Sanitize(result, options) on the result of the first call
SanTwice ==
  /\ fn.pc = "san" /\ fn.onceDone /\ ~fn.twiceDone
  /\ fn' = [fn EXCEPT !.twiceDone = TRUE, !.twice = Sanitize(fn.once, fn.options)]
  /\ UNCHANGED <<envVars, wizardVars, createCount, lastCreate, pending, cli>>

NextSan ==
  \/ SanOnce
  \/ SanTwice

SpecSan == InitSan /\ [][NextSan]_vars

(***************************************************************************)
(* The sanitizer on longer inputs over a smaller alphabet that holds "+",  *)
(* a character only step 6 of Sanitize deletes.                            *)
(***************************************************************************)
DeepMaxLen == 5
DeepChars == {"a", "-", "+", "."}
DeepInputs == UNION {[1..n -> DeepChars] : n \in 0..DeepMaxLen}

DeepOptions ==
  [Separator : {<<"-">>, <<"_">>}, Lowercase : {TRUE},
   RemoveUmlauts : {TRUE, FALSE}, MaxLength : {0, 4}]

InitSanDeep ==
  /\ config \in Configs
  /\ user = WizardUser
  /\ gitBranches = LocalBranches
  /\ NewAppModel /\ IdleRest /\ IdleCli
  /\ fn \in [pc : {"san"}, input : DeepInputs, options : DeepOptions,
             once : {<<>>}, onceDone : {FALSE}, twice : {<<>>}, twiceDone : {FALSE}]

SpecSanDeep == InitSanDeep /\ [][NextSan]_vars

(***************************************************************************)
(* The wizard with the branch search in use: two local branches, and a     *)
(* user who types main into the search field.                              *)
(***************************************************************************)
MainBranch == <<"m", "a", "i", "n">>
SearchBranches == <<<<"d", "e", "v">>, MainBranch>>

SearchUser ==
  [keys |-> {"enter", "esc", "q", "/", "m", "a", "i", "n", "A", "-", "1"},
   ticketTexts |-> {<<"A", "-", "1">>},
   titleTexts |-> {},
   queryTexts |-> {MainBranch},
   jiraInstalled |-> TRUE]

InitSearch ==
  /\ config \in Configs
  /\ user = SearchUser
  /\ gitBranches = SearchBranches
  /\ NewAppModel /\ IdleRest /\ IdleCli /\ IdleFn

SpecSearch == InitSearch /\ [][Next]_vars

(***************************************************************************)
(* The type selector on its own, built from a configuration of three       *)
(* branch types of which any one is the default, and driven by keys.       *)
(***************************************************************************)
SelectorTypeKeys == BranchTypeKeys \cup {<<"h", "o", "t">>}

\* the configurations Load accepts: the default type is one of the types
SelectorConfigs ==
  [MaxBranchLength : {60},
   DefaultBranchType : SelectorTypeKeys,
   Separator : {<<"-">>},
   Lowercase : {TRUE},
   RemoveUmlauts : {TRUE}]

\* the orders in which ranging over the map of three types can yield its keys
SelectorOrders == {o \in [1..Cardinality(SelectorTypeKeys) -> SelectorTypeKeys] :
                     \A i, j \in DOMAIN o : i # j => o[i] # o[j]}

InitSelector ==
  /\ config \in SelectorConfigs
  /\ user = WizardUser
  /\ gitBranches = LocalBranches
  /\ NewAppModel /\ IdleRest /\ IdleCli
  /\ fn \in [pc : {"selector"}, order : SelectorOrders, built : {FALSE},
             model : {[items |-> <<>>, cursor |-> 1, selected |-> <<>>,
                       width |-> 0, height |-> 0]},
             first : {<<>>}]

\* NewTypeSelectorModel(cfg); first is the key of the item highlighted then
SelectorNew ==
  /\ fn.pc = "selector" /\ ~fn.built
  /\ LET m == NewTypeSelectorModel(config, fn.order)
     IN fn' = [fn EXCEPT !.built = TRUE, !.model = m, !.first = m.items[m.cursor]]
  /\ UNCHANGED <<envVars, wizardVars, createCount, lastCreate, pending, cli>>

\* TypeSelectorModel.Update(tea.KeyMsg)
SelectorKey ==
  /\ fn.pc = "selector" /\ fn.built
  /\ \E key \in {"up", "down", "enter"} :
       fn' = [fn EXCEPT !.model = TypeSelectorUpdate(fn.model, key)]
  /\ UNCHANGED <<envVars, wizardVars, createCount, lastCreate, pending, cli>>

NextSelector ==
  \/ SelectorNew
  \/ SelectorKey

SpecSelector == InitSelector /\ [][NextSelector]_vars

(***************************************************************************)
(* The branch filter applied to a list of branch names and a search term.  *)
(***************************************************************************)
FilterMaxBranches == 3
FilterNames == {<<"A", "b">>, <<"a", "-", "b">>, <<"b", "a">>, <<"x", "a", "B">>}
FilterTerms == {<<>>, <<"a", "b">>, <<"A", "B">>, <<"b", "a">>, <<"b">>}

\* the branch lists git reports: names without repetition
FilterLists ==
  {l \in UNION {[1..n -> FilterNames] : n \in 0..FilterMaxBranches} :
     \A i, j \in 1..Len(l) : i # j => l[i] # l[j]}

InitFilter ==
  /\ config \in Configs
  /\ user = WizardUser
  /\ gitBranches = LocalBranches
  /\ NewAppModel /\ IdleRest /\ IdleCli
  /\ fn \in [pc : {"filter"}, branches : FilterLists, searchTerm : FilterTerms,
             result : {<<>>}, hasResults : {FALSE}, done : {FALSE}]

\* FilterBranchesRealtime(branches, searchTerm)
FilterApply ==
  /\ fn.pc = "filter" /\ ~fn.done
  /\ fn' = [fn EXCEPT !.done = TRUE,
                      !.result = FilterBranchesRealtime(fn.branches, fn.searchTerm),
                      !.hasResults = FilterHasResults(fn.branches, fn.searchTerm)]
  /\ UNCHANGED <<envVars, wizardVars, createCount, lastCreate, pending, cli>>

NextFilter == FilterApply

SpecFilter == InitFilter /\ [][NextFilter]_vars

(***************************************************************************)
(* internal/git: listing the branches.  The refs of a repository, as git   *)
(* branch -a prints them, are parsed by GetBranchesWithInfo, and the       *)
(* wizard builds its branch picker from the result.  A ref is a local      *)
(* branch (refs/heads) or a remote-tracking ref (refs/remotes); the short  *)
(* name of a remote-tracking ref starts with the remote's name and "/".    *)
(***************************************************************************)
OriginPrefix == <<"o", "r", "i", "g", "i", "n", "/">>

\* the refs a repository may hold, in the order git lists them
RepoRefs ==
  <<[name |-> <<"d", "e", "v">>, remote |-> FALSE],
    [name |-> <<"f", "/", "x">>, remote |-> FALSE],
    [name |-> <<"m", "a", "i", "n">>, remote |-> FALSE],
    [name |-> OriginPrefix \o <<"m", "a", "i", "n">>, remote |-> TRUE],
    [name |-> <<"u", "p", "/", "d", "e", "v">>, remote |-> TRUE]>>

\* a repository: some of these refs, and the local branch checked out (0 when
\* HEAD is detached)
Repos ==
  {[has |-> h, head |-> c] :
     h \in SUBSET (1..Len(RepoRefs)),
     c \in 0..Len(RepoRefs)}

RepoRefList(repo) == SelectSeq([i \in 1..Len(RepoRefs) |-> i], LAMBDA i : i \in repo.has)

\* git branch -a --format=%(refname:short)|%(HEAD): one line per ref
GitBranchLines(repo) ==
  [k \in 1..Len(RepoRefList(repo)) |->
     RepoRefs[RepoRefList(repo)[k]].name \o <<"|">>
       \o (IF RepoRefList(repo)[k] = repo.head THEN <<"*">> ELSE <<" ">>)]

\* strings.Split(s, sep) for a one-character sep
RECURSIVE Split(_, _)
Split(s, c) ==
  IF \A i \in 1..Len(s) : s[i] # c THEN <<s>>
  ELSE LET i == CHOOSE j \in 1..Len(s) : s[j] = c /\ \A k \in 1..(j - 1) : s[k] # c
       IN <<SubSeq(s, 1, i - 1)>> \o Split(SubSeq(s, i + 1, Len(s)), c)

\* strings.HasPrefix(s, prefix)
HasPrefix(s, prefix) == Len(s) >= Len(prefix) /\ SubSeq(s, 1, Len(prefix)) = prefix

\* LocalGitRepository.GetBranchesWithInfo(): the loop body for one line
ParseBranchLine(line0) ==
  LET line == TrimSpace(line0)
      parts == Split(line, "|")
  IN IF line = <<>> \/ Len(parts) # 2 THEN <<>>
     ELSE LET branchName == parts[1]
              isRemote == HasPrefix(branchName, OriginPrefix) \/ Contains(branchName, <<"/">>)
          IN IF ~isRemote
               THEN <<[Name |-> branchName, IsCurrent |-> parts[2] = <<"*">>,
                       IsRemote |-> isRemote]>>
               ELSE <<>>

\* LocalGitRepository.GetBranchesWithInfo() on the lines git printed
GetBranchesWithInfo(lines) == Flatten([i \in 1..Len(lines) |-> ParseBranchLine(lines[i])])

InitBranches ==
  /\ config \in Configs
  /\ user = WizardUser
  /\ gitBranches = LocalBranches
  /\ NewAppModel /\ IdleRest /\ IdleCli
  /\ fn \in [pc : {"branches"},
             repo : {r \in Repos : r.head = 0 \/ (r.head \in r.has /\ ~RepoRefs[r.head].remote)},
             branches : {<<>>}, listed : {FALSE},
             picker : {NewBranchSelectorModel(<<>>)}, built : {FALSE}]

\* gitRepo.GetBranchesWithInfo(), called by NewAppModel
BranchesList ==
  /\ fn.pc = "branches" /\ ~fn.listed
  /\ fn' = [fn EXCEPT !.listed = TRUE,
                      !.branches = GetBranchesWithInfo(GitBranchLines(fn.repo))]
  /\ UNCHANGED <<envVars, wizardVars, createCount, lastCreate, pending, cli>>

\* NewAppModel: models.NewBranchSelectorModel(branches)
BranchesPicker ==
  /\ fn.pc = "branches" /\ fn.listed /\ ~fn.built
  /\ fn' = [fn EXCEPT !.built = TRUE,
                      !.picker = NewBranchSelectorModel(
                                   [i \in 1..Len(fn.branches) |-> fn.branches[i].Name])]
  /\ UNCHANGED <<envVars, wizardVars, createCount, lastCreate, pending, cli>>

NextBranches ==
  \/ BranchesList
  \/ BranchesPicker

SpecBranches == InitBranches /\ [][NextBranches]_vars

(***************************************************************************)
(* internal/config: validation.  A configuration is a record of the fields *)
(* of Config, with the map branch_types a function from its keys to their  *)
(* prefixes; isNil says that the pointer handed over is nil.  An error is  *)
(* named by the field it is about, and the nil error is the empty string.  *)
(***************************************************************************)
FeatureKey == <<"f", "e", "a", "t", "u", "r", "e">>
DefaultTypeKeys ==
  {FeatureKey, <<"h", "o", "t", "f", "i", "x">>, <<"r", "e", "f", "a", "c", "t", "o", "r">>,
   <<"s", "u", "p", "p", "o", "r", "t">>}

\* GetDefaultConfig()
GetDefaultConfig ==
  [MaxBranchLength |-> 60,
   DefaultBranchType |-> FeatureKey,
   BranchTypes |-> [k \in DefaultTypeKeys |-> k \o <<"/">>],
   Separator |-> <<"-">>,
   Lowercase |-> TRUE,
   RemoveUmlauts |-> FALSE]

\* problematicChars of ValidateAndFix and of ValidateStrict
ProblematicChars == {"/", "\\", ":", "*", "?", "\"", "<", ">", "|", " "}

HasProblematicChar(separator) == \E i \in 1..Len(separator) : separator[i] \in ProblematicChars

\* ValidateAndFix: branch_types after the fixes
FixBranchTypes(types) ==
  IF DOMAIN types = {} THEN GetDefaultConfig.BranchTypes
  ELSE [k \in DOMAIN types |->
          IF types[k] # <<>> THEN types[k]
          ELSE IF k \in DOMAIN GetDefaultConfig.BranchTypes
                 THEN GetDefaultConfig.BranchTypes[k]
                 ELSE k \o <<"/">>]

\* ValidateAndFix: default_branch_type after the fixes, given the fixed map
FixDefaultBranchType(default, types) ==
  IF default = <<>> THEN GetDefaultConfig.DefaultBranchType
  ELSE IF default \notin DOMAIN types THEN GetDefaultConfig.DefaultBranchType
  ELSE default

\* ValidateAndFix: the separator after the three checks, made in this order
FixSeparator(separator) ==
  LET s1 == IF separator = <<>> THEN GetDefaultConfig.Separator ELSE separator
      s2 == IF Len(s1) > 5 THEN GetDefaultConfig.Separator ELSE s1
  IN IF HasProblematicChar(s2) THEN GetDefaultConfig.Separator ELSE s2

\* ValidateAndFix(config): the configuration as it leaves it, the fields its
\* errors are about, and whether it fixed a value
ValidateAndFix(isNil, cfg) ==
  IF isNil
    THEN [config |-> cfg, Errors |-> <<"config">>, Fixed |-> FALSE]
    ELSE LET types == FixBranchTypes(cfg.BranchTypes)
             fixed ==
               [cfg EXCEPT
                  !.MaxBranchLength =
                     IF cfg.MaxBranchLength < 10 \/ cfg.MaxBranchLength > 200
                       THEN GetDefaultConfig.MaxBranchLength ELSE cfg.MaxBranchLength,
                  !.BranchTypes = types,
                  !.DefaultBranchType = FixDefaultBranchType(cfg.DefaultBranchType, types),
                  !.Separator = FixSeparator(cfg.Separator)]
         IN [config |-> fixed,
             Errors |-> IF DOMAIN cfg.BranchTypes # {} /\ <<>> \in DOMAIN cfg.BranchTypes
                          THEN <<"branch_types">> ELSE <<>>,
             Fixed |-> fixed # cfg]

\* ValidateStrict(config): the field of the error it returns, "" for nil
ValidateStrict(isNil, cfg) ==
  IF isNil THEN "config"
  ELSE IF cfg.MaxBranchLength < 10 \/ cfg.MaxBranchLength > 200 THEN "max_branch_length"
  ELSE IF DOMAIN cfg.BranchTypes = {} THEN "branch_types"
  ELSE IF \E k \in DOMAIN cfg.BranchTypes : k = <<>> \/ cfg.BranchTypes[k] = <<>>
    THEN "branch_types"
  ELSE IF cfg.DefaultBranchType = <<>> THEN "default_branch_type"
  ELSE IF cfg.DefaultBranchType \notin DOMAIN cfg.BranchTypes THEN "default_branch_type"
  ELSE IF cfg.Separator = <<>> THEN "sanitization.separator"
  ELSE IF Len(cfg.Separator) > 5 THEN "sanitization.separator"
  ELSE IF HasProblematicChar(cfg.Separator) THEN "sanitization.separator"
  ELSE ""

\* the configurations handed to the validation
ValidationKeys == {<<>>, FeatureKey, <<"b", "u", "g">>}
ValidationPrefixes == {<<>>, <<"p", "/">>}
ValidationConfigs ==
  [MaxBranchLength : {9, 10, 200, 201},
   DefaultBranchType : {<<>>, FeatureKey, <<"b", "u", "g">>, <<"z">>},
   BranchTypes : UNION {[S -> ValidationPrefixes] : S \in SUBSET ValidationKeys},
   Separator : {<<>>, <<"-">>, <<"_">>, <<"/">>, <<"-", "-", "-", "-", "-", "-">>},
   Lowercase : {TRUE},
   RemoveUmlauts : {FALSE}]

InitValidation ==
  /\ config \in Configs
  /\ user = WizardUser
  /\ gitBranches = LocalBranches
  /\ NewAppModel /\ IdleRest /\ IdleCli
  /\ fn \in [pc : {"validation"}, isNil : BOOLEAN, config : ValidationConfigs,
             errors : {<<>>}, fixedFlag : {FALSE}, fixDone : {FALSE},
             strict : {""}, strictDone : {FALSE}]

\* ValidateAndFix(config): the configuration is fixed in place
ValidationFix ==
  /\ fn.pc = "validation" /\ ~fn.fixDone
  /\ fn' = [fn EXCEPT !.fixDone = TRUE,
                      !.config = ValidateAndFix(fn.isNil, fn.config).config,
                      !.errors = ValidateAndFix(fn.isNil, fn.config).Errors,
                      !.fixedFlag = ValidateAndFix(fn.isNil, fn.config).Fixed]
  /\ UNCHANGED <<envVars, wizardVars, createCount, lastCreate, pending, cli>>

\* ValidateStrict(config) on the configuration ValidateAndFix left
ValidationStrict ==
  /\ fn.pc = "validation" /\ fn.fixDone /\ ~fn.strictDone
  /\ fn' = [fn EXCEPT !.strictDone = TRUE,
                      !.strict = ValidateStrict(fn.isNil, fn.config)]
  /\ UNCHANGED <<envVars, wizardVars, createCount, lastCreate, pending, cli>>

NextValidation ==
  \/ ValidationFix
  \/ ValidationStrict

SpecValidation == InitValidation /\ [][NextValidation]_vars

(***************************************************************************)
(* Properties.                                                             *)
(***************************************************************************)
\* C1: the create-branch collaborator is only ever called with a name that
\* passed ValidateName before the call; such a name is a valid one, so every
\* name recorded at a CreateBranch call satisfies ValidateName.
C1_CreatedNamesAreValid == lastCreate.made => ValidateName(lastCreate.name)

\* C2: when a title-fetch result is delivered to the ticket form and the
\* ticket id it was requested for differs from the current value of the
\* ticket field, the title field is left unchanged.
C2_StaleResultDiscarded ==
  [][\A i \in 1..Len(pending) : \A msg \in FetchResults(pending[i]) :
       (FormFetchedMsg(i, msg) /\ msg.TicketID # inputModel.ticketInput)
         => inputModel'.titleInput = inputModel.titleInput]_vars

\* C3: whatever path led to the current state, the back key leads from
\* BranchSelection to TypeSelection, from TicketInput to BranchSelection and
\* from Confirmation to TicketInput.
C3_BackTable ==
  [][KeyBack =>
       /\ state = "BranchSelection" => state' = "TypeSelection"
       /\ state = "TicketInput" => state' = "BranchSelection"
       /\ state = "Confirmation" => state' = "TicketInput"]_vars

\* C3 witness: the wizard went forward to Confirmation and the back key then
\* led it through TicketInput and BranchSelection to TypeSelection.
C3_Witness ==
  /\ state = "TypeSelection"
  /\ ~quit
  /\ typeModel.selected # <<>>
  /\ branchModel.selected # <<>>
  /\ inputModel.completed

\* C4: the wizard never moves from Complete to another state, and the back
\* key pressed in Complete ends the wizard.
C4_CompleteIsFinal ==
  [][state = "Complete" => (state' = "Complete" /\ (KeyBack => quit'))]_vars

\* the position of a state in the forward order of the wizard
StateOrder(st) ==
  CASE st = "TypeSelection" -> 1
    [] st = "BranchSelection" -> 2
    [] st = "TicketInput" -> 3
    [] st = "TitleInput" -> 3
    [] st = "Confirmation" -> 4
    [] st = "Complete" -> 5

\* C5: the wizard moves forward one state at a time, and only in a step after
\* which the child component of the state it leaves reports a completed
\* selection or submission.
C5_AdvanceOnlyOnCompletion ==
  [][StateOrder(state') > StateOrder(state) =>
       /\ StateOrder(state') = StateOrder(state) + 1
       /\ state = "TypeSelection" => typeModel'.selected # <<>>
       /\ state = "BranchSelection" => branchModel'.selected # <<>>
       /\ state = "TicketInput" => inputModel'.completed
       /\ state = "Confirmation" => confirmationModel'.confirmed]_vars

\* C5 witness: the wizard has advanced from TypeSelection to Confirmation, each
\* child having reported its selection, and the user has not confirmed yet.
C5_Witness ==
  /\ state = "Confirmation"
  /\ typeModel.selected = <<"f", "e", "a", "t">>
  /\ branchModel.selected # <<>>
  /\ inputModel.completed
  /\ ~confirmationModel.confirmed

\* C6: a confirmation in Confirmation moves the wizard to Complete whether the
\* create call succeeds or fails, with the created name and its base on the
\* completion screen in the first case and the error message in the second;
\* an event that is no key (a window size) never changes the state.
C6_ConfirmMovesToComplete ==
  [][/\ (KeyConfirmation /\ confirmationModel'.confirmed) =>
          /\ state' = "Complete"
          /\ createCount' = createCount + 1
          /\ lastCreate'.ok =>
               /\ completionModel'.state = "CompletionSuccess"
               /\ completionModel'.branchName = lastCreate'.name
               /\ completionModel'.baseBranch = lastCreate'.baseBranch
          /\ ~lastCreate'.ok =>
               /\ completionModel'.state = "CompletionError"
               /\ completionModel'.errorMessage = GitErrorMessage
     /\ Resize => state' = state]_vars

\* C6 witness: the create call failed and the wizard is in Complete, showing
\* the error message.
C6_Witness ==
  /\ state = "Complete"
  /\ lastCreate.made /\ ~lastCreate.ok
  /\ completionModel.state = "CompletionError"
  /\ completionModel.errorMessage = GitErrorMessage

\* C7: the back key in Confirmation returns the wizard to TicketInput and
\* leaves the ticket form and the accumulated ticket id and title as they were.
C7_BackFromConfirmationKeepsTicket ==
  [][(KeyBack /\ state = "Confirmation") =>
       /\ state' = "TicketInput"
       /\ inputModel' = inputModel
       /\ ticketNumber' = ticketNumber
       /\ ticketTitle' = ticketTitle]_vars

\* C7 witness: back in TicketInput after a submission, with the ticket id and
\* the title in the form and in the selections, and no branch created yet.
C7_Witness ==
  /\ state = "TicketInput"
  /\ createCount = 0
  /\ inputModel.completed
  /\ inputModel.ticketInput = <<"A", "-", "1">>
  /\ inputModel.titleInput = <<"a">>
  /\ ticketNumber = <<"A", "-", "1">>
  /\ ticketTitle = <<"a">>

\* C8: every create call of the wizard passes the name the Confirmation screen
\* displayed for the accumulated selections, and the selected base branch.
C8_CreatedNameIsDisplayedName ==
  [][createCount' # createCount =>
       /\ lastCreate'.name = renderConfirmation
       /\ lastCreate'.baseBranch = selectedBranch]_vars

\* C8 witness: a branch named from the selections feat, A-1 and the title a was
\* created from main.
C8_Witness ==
  /\ lastCreate.made
  /\ selectedType = <<"f", "e", "a", "t">>
  /\ lastCreate.name = <<"f", "e", "a", "t", "/", "A", "-", "1", "-", "a">>
  /\ lastCreate.baseBranch = <<"m", "a", "i", "n">>

\* C9: for the same branch type, ticket id, title and configuration, the
\* wizard's generation and the non-interactive path's generation return the
\* same name.
C9_WizardMatchesNonInteractive ==
  (fn.pc = "on" /\ fn.generatedDone /\ fn.wizardDone) => fn.wizard = fn.generated

\* C10: for a non-empty type and ticket id, the name GenerateNameWithConfig
\* returns passes ValidateName.
C10_GeneratedNamePassesValidation ==
  (fn.pc = "on" /\ fn.generatedDone /\ fn.Type # <<>> /\ fn.TicketID # <<>>)
    => ValidateName(fn.generated)

\* C11: sanitizing the result of Sanitize again, with the same options,
\* returns it unchanged.
C11_SanitizeIdempotent ==
  (fn.pc = "san" /\ fn.twiceDone) => fn.twice = fn.once

\* a ticket id as the form accepts it: one uppercase letter, then uppercase
\* letters or digits, a hyphen, and one or more digits
IsTicketId(v) ==
  /\ Len(v) >= 3
  /\ v[1] \in UpperSet
  /\ \E h \in 2..(Len(v) - 1) :
       /\ v[h] = "-"
       /\ \A i \in 2..(h - 1) : v[i] \in UpperSet \cup DigitChars
       /\ \A i \in (h + 1)..Len(v) : v[i] \in DigitChars

\* C12: a title fetch is dispatched only in a step in which a keystroke
\* changes the ticket field to a valid ticket id while the title field is
\* empty and the Jira client is available; the fetch is for that ticket id.
C12_FetchOnlyOnValidChange ==
  [][Len(pending') > Len(pending) =>
       /\ inputModel'.ticketInput # inputModel.ticketInput
       /\ IsTicketId(TrimSpace(inputModel'.ticketInput))
       /\ inputModel.titleInput = <<>>
       /\ inputModel.jira = "available"
       /\ pending' = Append(pending, inputModel'.ticketInput)]_vars

\* C12 witness: a fetch for A-1 is in flight, dispatched while the title
\* field was empty.
C12_Witness ==
  /\ pending = <<<<"A", "-", "1">>>>
  /\ inputModel.titleFetching
  /\ inputModel.titleInput = <<>>
  /\ inputModel.ticketInput = <<"A", "-", "1">>

\* C15: the form becomes submitted only in a step from a form whose ticket is
\* valid and non-blank, and on every reachable form whose ticket is valid and
\* non-blank Enter submits, with the trimmed ticket id and title, whether or
\* not a title was entered.
C15_EnterSubmitsIffValid ==
  /\ [][(~inputModel.completed /\ inputModel'.completed) =>
          /\ inputModel.ticketValid
          /\ TrimSpace(inputModel.ticketInput) # <<>>
          /\ inputModel' = InputFormUpdate(inputModel, "enter")]_vars
  /\ []((inputModel.ticketValid /\ TrimSpace(inputModel.ticketInput) # <<>>) =>
          /\ InputFormUpdate(inputModel, "enter").completed
          /\ InputFormUpdate(inputModel, "enter").ticketNumber = TrimSpace(inputModel.ticketInput)
          /\ InputFormUpdate(inputModel, "enter").ticketTitle = TrimSpace(inputModel.titleInput))

\* C15 witness: the form was submitted with a valid ticket id and an empty
\* title.
C15_Witness ==
  /\ inputModel.completed
  /\ inputModel.ticketNumber = <<"A", "-", "1", "2">>
  /\ inputModel.ticketTitle = <<>>
  /\ inputModel.titleInput = <<>>

\* C16: the form's ticketValid is true exactly when the trimmed value of the
\* ticket field is a ticket id.
C16_ValidIffTicketId ==
  inputModel.ticketValid = IsTicketId(TrimSpace(inputModel.ticketInput))

\* C16 witness: the ticket field holds a-1, which has the shape of a ticket id
\* but a lowercase letter, and the form reports it invalid.
C16_Witness ==
  /\ inputModel.ticketInput = <<"a", "-", "1">>
  /\ ~inputModel.ticketValid
  /\ inputModel.ticketError = InvalidFormatMessage

\* C13: in the wizard, a keystroke that changes the ticket field to a valid
\* ticket id while the title field is empty and the jira command is installed
\* dispatches a title fetch for that ticket id.
C13_WizardDispatchesFetch ==
  [][(/\ state = "TicketInput"
      /\ inputModel'.ticketInput # inputModel.ticketInput
      /\ IsTicketId(TrimSpace(inputModel'.ticketInput))
      /\ inputModel.titleInput = <<>>
      /\ user.jiraInstalled) =>
        pending' = Append(pending, inputModel'.ticketInput)]_vars

NamePrefix == fn.Type \o <<"/">> \o fn.TicketID \o config.Separator

\* the room the configured maximum leaves for the title part
TitleBudget == config.MaxBranchLength - Len(NamePrefix)

\* a name was generated from a non-empty type and ticket id
GeneratedFromParts ==
  fn.pc = "on" /\ fn.generatedDone /\ fn.Type # <<>> /\ fn.TicketID # <<>>

\* C17: for a non-empty type and ticket id, when the maximum leaves room for
\* at least one character of title, the generated name is no longer than the
\* maximum.
C17_NameWithinMaximum ==
  (GeneratedFromParts /\ TitleBudget >= 1) =>
    Len(fn.generated) <= config.MaxBranchLength

\* C17 witness: a three-letter title was cut down to the two characters the
\* maximum of 10 leaves after fix/A-1-.
C17_Witness ==
  /\ GeneratedFromParts
  /\ config.MaxBranchLength = 10
  /\ fn.Title = <<"a", "a", "a">>
  /\ fn.generated = <<"f", "i", "x", "/", "A", "-", "1", "-", "a", "a">>

\* C18: for a non-empty type and ticket id the generated name begins with the
\* type, a slash, the ticket id and the separator, exactly as given, whether
\* or not the title part was shortened.
C18_PrefixPreserved ==
  GeneratedFromParts =>
    /\ Len(fn.generated) >= Len(NamePrefix)
    /\ SubSeq(fn.generated, 1, Len(NamePrefix)) = NamePrefix

\* C18 witness: with lowercasing on and the title cut to one character, the
\* uppercase ticket id stands unchanged in the name.
C18_Witness ==
  /\ GeneratedFromParts
  /\ config.Lowercase /\ config.Separator = <<"_">>
  /\ fn.Title = <<"B", "B">>
  /\ fn.generated = <<"f", "e", "a", "t", "/", "A", "-", "1", "_", "b">>

\* C19: with an empty title the name is the prefix followed by the ticket id
\* sanitized with the configured separator, case and umlaut options and the
\* title's length limit; with the default configuration, type feature and
\* ticket STR-123 give feature/STR-123-str-123.
C19_EmptyTitleUsesTicket ==
  /\ (GeneratedFromParts /\ fn.Title = <<>>) =>
       fn.generated =
         NamePrefix \o Sanitize(fn.TicketID,
                        [Separator |-> config.Separator, Lowercase |-> config.Lowercase,
                         RemoveUmlauts |-> config.RemoveUmlauts,
                         MaxLength |-> IF TitleBudget < 1 THEN MinTitleLength
                                                          ELSE TitleBudget])
  /\ GenerateNameWithConfig(<<"f", "e", "a", "t", "u", "r", "e">>,
                            <<"S", "T", "R", "-", "1", "2", "3">>, <<>>,
                            [MaxBranchLength |-> 60, Separator |-> <<"-">>,
                             Lowercase |-> TRUE, RemoveUmlauts |-> TRUE])
       = <<"f", "e", "a", "t", "u", "r", "e", "/", "S", "T", "R", "-", "1", "2", "3",
           "-", "s", "t", "r", "-", "1", "2", "3">>

\* C19 witness: no title was given and the name ends in the lowercased ticket
\* id.
C19_Witness ==
  /\ GeneratedFromParts
  /\ fn.Title = <<>>
  /\ config.MaxBranchLength = 60
  /\ fn.generated = <<"f", "i", "x", "/", "A", "-", "1", "-", "a", "-", "1">>

\* term occurs in name as a contiguous run, letter case ignored
IsSubstringMatch(name, term) ==
  \E i \in 1..(Len(name) - Len(term) + 1) :
    \A k \in 1..Len(term) : ToLowerChar(name[i + k - 1]) = ToLowerChar(term[k])

\* the characters of term occur in name in order, letter case ignored
IsSubsequenceMatch(name, term) ==
  \E f \in [1..Len(term) -> 1..Len(name)] :
    /\ \A k \in 1..Len(term) : ToLowerChar(name[f[k]]) = ToLowerChar(term[k])
    /\ \A k \in 1..(Len(term) - 1) : f[k] < f[k + 1]

\* the place of a name in the list that was filtered
PlaceInList(name) == CHOOSE i \in 1..Len(fn.branches) : fn.branches[i] = name

\* C20: the result holds exactly the names that match the term, each once;
\* every substring match comes before every name that matches only as a
\* subsequence, and within each of the two groups the names keep the order
\* they had in the list.
C20_SubstringMatchesFirst ==
  (fn.pc = "filter" /\ fn.done) =>
    /\ {fn.result[i] : i \in 1..Len(fn.result)} =
         {fn.branches[i] : i \in {j \in 1..Len(fn.branches) :
                                    \/ IsSubstringMatch(fn.branches[j], fn.searchTerm)
                                    \/ IsSubsequenceMatch(fn.branches[j], fn.searchTerm)}}
    /\ \A i, j \in 1..Len(fn.result) : i < j =>
         /\ fn.result[i] # fn.result[j]
         /\ IsSubstringMatch(fn.result[j], fn.searchTerm) =>
              IsSubstringMatch(fn.result[i], fn.searchTerm)
         /\ (IsSubstringMatch(fn.result[i], fn.searchTerm)
               = IsSubstringMatch(fn.result[j], fn.searchTerm)) =>
              PlaceInList(fn.result[i]) < PlaceInList(fn.result[j])

\* C20 witness: of a-b, xaB, ba and the term AB, the substring match xaB is
\* listed before the subsequence match a-b and ba is left out.
C20_Witness ==
  /\ fn.pc = "filter" /\ fn.done
  /\ fn.branches = <<<<"a", "-", "b">>, <<"x", "a", "B">>, <<"b", "a">>>>
  /\ fn.searchTerm = <<"A", "B">>
  /\ fn.result = <<<<"x", "a", "B">>, <<"a", "-", "b">>>>

\* how often a name occurs in a list
Occurrences(list, name) == Cardinality({i \in 1..Len(list) : list[i] = name})

\* C21: for a non-empty term, a name of the list is in the result exactly when
\* the term is a subsequence of it, letter case ignored, and then it is there
\* exactly once.
C21_ResultIsSubsequenceMatches ==
  (fn.pc = "filter" /\ fn.done /\ fn.searchTerm # <<>>) =>
    /\ \A i \in 1..Len(fn.branches) :
         Occurrences(fn.result, fn.branches[i]) =
           IF IsSubsequenceMatch(fn.branches[i], fn.searchTerm) THEN 1 ELSE 0
    /\ \A i \in 1..Len(fn.result) : Occurrences(fn.branches, fn.result[i]) = 1

\* C21 witness: of Ab, a-b, ba and the term ab, Ab (a substring match) and
\* a-b are each listed once and ba is not.
C21_Witness ==
  /\ fn.pc = "filter" /\ fn.done
  /\ fn.branches = <<<<"A", "b">>, <<"a", "-", "b">>, <<"b", "a">>>>
  /\ fn.searchTerm = <<"a", "b">>
  /\ fn.result = <<<<"A", "b">>, <<"a", "-", "b">>>>

\* C22: hasResults is true exactly when at least one match is returned.
C22_HasResultsIffMatches ==
  (fn.pc = "filter" /\ fn.done) => (fn.hasResults = (Len(fn.result) > 0))

\* C23: the empty term returns the list as it was given.
C23_EmptyTermReturnsList ==
  (fn.pc = "filter" /\ fn.done /\ fn.searchTerm = <<>>) => fn.result = fn.branches

\* C23 witness: three names were filtered with the empty term and came back
\* in their order.
C23_Witness ==
  /\ fn.pc = "filter" /\ fn.done
  /\ fn.searchTerm = <<>>
  /\ fn.branches = <<<<"b", "a">>, <<"A", "b">>, <<"a", "-", "b">>>>
  /\ fn.result = fn.branches

\* the search field of the branch step holds main, typed after "/", and no
\* branch has been selected yet
SearchedMain(searching) ==
  /\ ~quit /\ state = "BranchSelection"
  /\ selectedType # <<>>
  /\ branchModel.selected = <<>>
  /\ branchModel.searching = searching
  /\ branchModel.query = MainBranch

C25_CancelExitsWithSuccess ==
  (quit /\ state # "Complete") =>
    /\ HandleError(runInteractiveMode(RunTUI(FALSE))) = 0
    /\ HandleError(runInteractiveMode(RunTUI(FALSE)))
         # HandleError(runInteractiveMode(RunTUI(TRUE)))

\* C26: when the create call of a confirmation failed, the Complete screen
\* shows the error message and the branch name the call was made with.
C26_FailureShowsAttemptedName ==
  (state = "Complete" /\ completionModel.state = "CompletionError") =>
    /\ CompletionErrorView(completionModel).message # <<>>
    /\ CompletionErrorView(completionModel).attempted = <<lastCreate.name>>

\* the selections the wizard accumulates
Selections == <<selectedType, selectedBranch, ticketNumber, ticketTitle, finalBranch>>

\* the child component the wizard shows in its current state
ActiveChild ==
  CASE state = "TypeSelection" -> typeModel
    [] state = "BranchSelection" -> branchModel
    [] state \in {"TicketInput", "TitleInput"} -> inputModel
    [] state = "Confirmation" -> confirmationModel
    [] OTHER -> completionModel

\* C27: the branch type changes only in a step of TypeSelection, the base
\* branch only in a step of BranchSelection, the ticket id and title only in a
\* step of TicketInput and the final name only in a step of Confirmation; a
\* step back and a resize change none of them.
C27_SelectionsChangeInOwningState ==
  [][/\ selectedType' # selectedType => state = "TypeSelection"
     /\ selectedBranch' # selectedBranch => state = "BranchSelection"
     /\ (ticketNumber' # ticketNumber \/ ticketTitle' # ticketTitle) =>
          state = "TicketInput"
     /\ finalBranch' # finalBranch => state = "Confirmation"
     /\ (\/ StateOrder(state') < StateOrder(state)
         \/ quit'
         \/ width' # width \/ height' # height) => Selections' = Selections]_vars

\* C27 witness: the wizard was taken back from Confirmation to BranchSelection
\* and still holds the type, base branch, ticket id and title chosen before.
C27_Witness ==
  /\ state = "BranchSelection" /\ ~quit
  /\ selectedType # <<>>
  /\ selectedBranch = <<"m", "a", "i", "n">>
  /\ ticketNumber = <<"A", "-", "1">>
  /\ ticketTitle = <<"a">>

\* C28: a resize leaves the wizard state and the selections as they were, and
\* the child shown in that state holds the new width and the new height less
\* the six lines of header and footer.
C28_ResizeKeepsStateAndSelections ==
  [][(width' # width \/ height' # height) =>
       /\ state' = state /\ quit' = quit
       /\ Selections' = Selections
       /\ ActiveChild'.width = width'
       /\ ActiveChild'.height = height' - 6]_vars

\* C28 witness: the window size arrived while the wizard was in Confirmation
\* with its selections made, and the confirmation screen has that size.
C28_Witness ==
  /\ state = "Confirmation"
  /\ width = 80 /\ height = 24
  /\ confirmationModel.width = 80 /\ confirmationModel.height = 18
  /\ typeModel.selected # <<>>
  /\ selectedBranch = MainBranch
  /\ ticketNumber = <<"A", "-", "1">>

\* C29: once the result of a title fetch that carries an error has been
\* processed, the form shows the error, is no longer fetching, and Enter still
\* submits it when its ticket id is valid and not blank.
C29_FetchErrorDoesNotBlockSubmit ==
  (inputModel.titleError # "" /\ ~inputModel.titleFetching) =>
    /\ ~inputModel.titleFetched
    /\ (inputModel.ticketValid /\ TrimSpace(inputModel.ticketInput) # <<>>) =>
         /\ InputFormUpdate(inputModel, "enter").completed
         /\ InputFormUpdate(inputModel, "enter").ticketNumber
              = TrimSpace(inputModel.ticketInput)

\* C29 witness: the fetch for A-1 failed, no title was entered, and the form
\* was submitted with ticket A-1.
C29_Witness ==
  /\ inputModel.titleError # ""
  /\ inputModel.titleInput = <<>>
  /\ pending = <<>>
  /\ inputModel.completed
  /\ inputModel.ticketNumber = <<"A", "-", "1">>

C31_NoSeparatorOrDotAtEnds ==
  (fn.pc = "san" /\ fn.onceDone /\ fn.once # <<>>) =>
    /\ fn.once[1] # EffectiveSeparator(fn.options)
    /\ fn.once[Len(fn.once)] # EffectiveSeparator(fn.options)
    /\ fn.once[1] # "."

\* C38: the string Sanitize returns holds no two consecutive separators.
C38_NoSeparatorRun ==
  (fn.pc = "san" /\ fn.onceDone) =>
    \A i \in 1..(Len(fn.once) - 1) :
      ~(fn.once[i] = EffectiveSeparator(fn.options)
        /\ fn.once[i + 1] = EffectiveSeparator(fn.options))

\* C32: within one wizard run the create collaborator is called at most
\* once, whatever keys are pressed.
C32_CreateCalledAtMostOnce == createCount <= 1

\* C33: in TypeSelection, BranchSelection and TicketInput, also when the
\* state was entered by a back step, no key other than Enter makes the
\* state's handler advance the wizard.
C33_OnlyEnterAdvances ==
  ~quit =>
    /\ state = "TypeSelection" =>
         \A key \in StateKeys \ {"enter"} :
           ~TypeSelectorHasSelection(TypeSelectorUpdate(typeModel, key))
    /\ state = "BranchSelection" =>
         \A key \in StateKeys \ {"enter"} :
           ~BranchSelectorHasSelection(BranchSelectorUpdate(branchModel, key))
    /\ state = "TicketInput" =>
         \A key \in StateKeys \ {"enter", "ctrl+enter"} :
           ~InputFormUpdate(inputModel, key).completed

\* C34: when Esc is pressed while the branch picker is in search mode, the
\* wizard stays in BranchSelection, the picker leaves search mode and the
\* query is kept.
C34_EscInSearchStaysInBranchSelection ==
  [][(state = "BranchSelection" /\ branchModel.searching /\ KeyBack) =>
       /\ state' = "BranchSelection"
       /\ ~branchModel'.searching
       /\ branchModel'.query = branchModel.query]_vars

\* C35: in the ticket form the characters q, j and k are typed into the
\* focused field: none of them quits the wizard, none moves the focus, and
\* each is appended to the field that has the focus.
C35_TypedCharacterIsInserted ==
  (~quit /\ state = "TicketInput") =>
    \A key \in {"q", "j", "k"} :
      /\ key \notin QuitKeys
      /\ InputFormUpdate(inputModel, key).currentField = inputModel.currentField
      /\ IF inputModel.currentField = "ticket"
           THEN InputFormUpdate(inputModel, key).ticketInput
                  = Append(inputModel.ticketInput, key)
           ELSE InputFormUpdate(inputModel, key).titleInput
                  = Append(inputModel.titleInput, key)

\* C36: a title the user typed while a fetch was in flight (the title field
\* is not empty and holds no fetched title) is still there after the fetch
\* result has been delivered to the form.
C36_FetchKeepsTypedTitle ==
  [][(inputModel.titleInput # <<>> /\ ~inputModel.titleFetched /\ FormFetched) =>
       inputModel'.titleInput = inputModel.titleInput]_vars

\* C37: a wizard run that ended after its create call had failed is not
\* reported as a success: RunTUI returns an error for it.
C37_FailedCreateIsReported ==
  (quit /\ lastCreate.made /\ ~lastCreate.ok) => RunTUI(FALSE) # NilError

\* C39: the candidates of the wizard's branch picker are the local branches
\* of the repository, those with "/" in their names included, and none of
\* its remote-tracking refs.
C39_LocalBranchesAreCandidates ==
  (fn.pc = "branches" /\ fn.built) =>
    \A i \in fn.repo.has :
      ~RepoRefs[i].remote <=> RepoRefs[i].name \in SeqToSet(fn.picker.allBranches)

\* C40: when ValidateAndFix reported no error for a configuration that is
\* not nil, ValidateStrict accepts the configuration as ValidateAndFix left it.
C40_FixedConfigPassesStrict ==
  (fn.pc = "validation" /\ fn.strictDone /\ ~fn.isNil /\ fn.errors = <<>>) =>
    fn.strict = ""

====
